---- MODULE Spec2Model ----
(***************************************************************************)
(* CSV-to-XML converter: the record grouper, the validation engine, the    *)
(* document assembler, the per-file pipeline (Converter.Run) and the       *)
(* concurrent orchestrator (runProcess).                                   *)
(*                                                                         *)
(* Strings of the program are sequences of one-character strings, so that  *)
(* length, emptiness and character classes are those of the Go strings.    *)
(* Field names, tags and rule names are atoms (TLA+ strings).              *)
(***************************************************************************)
EXTENDS Naturals, Integers, Sequences, FiniteSets, TLC

VARIABLES
    gen,           \* direct calls of groupTransactions / GenerateWithOptions
    val,           \* direct calls of Validator.ValidateAll
    config,        \* the main configuration and the department configuration
    files,         \* the rows of each CSV file of the input directory
    inputDir,      \* the files present in the input directory
    inputFiles,    \* runProcess: the slice returned by discoverInputFiles
    worker,        \* runProcess: the goroutine of each input file and its Run
    counter,       \* buildDocument: the globalLineItemIndex local of each call
    results,       \* runProcess: the buffered result channel
    closed,        \* runProcess: close(results) has happened
    wg,            \* runProcess: the WaitGroup counter
    collected,     \* runProcess: results received by the range loop
    summary,       \* runProcess: the summary has been printed
    outputDir,     \* the files of the output directory: name -> content
    inputArchive,  \* the files moved to the input archive directory
    outputArchive  \* the files of the output archive directory

vars == <<gen, val, config, files, inputDir, inputFiles, worker, counter,
          results, closed, wg, collected, summary, outputDir, inputArchive,
          outputArchive>>

orchVars == <<config, files, inputDir, inputFiles, worker, counter, results,
              closed, wg, collected, summary, outputDir, inputArchive,
              outputArchive>>

(***************************************************************************)
(* Bounds                                                                  *)
(***************************************************************************)
MaxRows == 3
NumUnits == 2
MaxRunRows == 2
MaxValRows == 2
MaxValueLen == 2
MaxActions == 3
MaxTarget == 3

(***************************************************************************)
(* Strings                                                                 *)
(***************************************************************************)
Digits == {"0", "1", "2", "3", "4", "5", "6", "7", "8", "9"}
Letters ==
    {"a", "b", "c", "d", "e", "f", "g", "h", "i", "j", "k", "l", "m", "n", "o",
     "p", "q", "r", "s", "t", "u", "v", "w", "x", "y", "z",
     "A", "B", "C", "D", "I", "N", "S", "Y"}
Spaces == {" "}

Str(c) == <<c>>
EmptyStr == <<>>

DigitChar(d) ==
    CASE d = 0 -> "0" [] d = 1 -> "1" [] d = 2 -> "2" [] d = 3 -> "3"
      [] d = 4 -> "4" [] d = 5 -> "5" [] d = 6 -> "6" [] d = 7 -> "7"
      [] d = 8 -> "8" [] d = 9 -> "9"

DigitVal(c) ==
    CASE c = "0" -> 0 [] c = "1" -> 1 [] c = "2" -> 2 [] c = "3" -> 3
      [] c = "4" -> 4 [] c = "5" -> 5 [] c = "6" -> 6 [] c = "7" -> 7
      [] c = "8" -> 8 [] c = "9" -> 9

\* fmt.Sprintf("%d", n) for n >= 0
RECURSIVE Itoa(_)
Itoa(n) == IF n < 10 THEN <<DigitChar(n)>>
           ELSE Itoa(n \div 10) \o <<DigitChar(n % 10)>>

\* the number an all-digit attribute value denotes (-1 when it is not one)
RECURSIVE ParseDigits(_, _)
ParseDigits(s, acc) ==
    IF s = <<>> THEN acc
    ELSE IF Head(s) \notin Digits THEN -1
    ELSE ParseDigits(Tail(s), acc * 10 + DigitVal(Head(s)))

Atoi(s) == IF s = <<>> THEN -1 ELSE ParseDigits(s, 0)

\* Go map lookup: a missing key reads as the zero value ""
Get(fields, name) == IF name \in DOMAIN fields THEN fields[name] ELSE EmptyStr

(***************************************************************************)
(* Record grouper: Converter.groupTransactions                             *)
(***************************************************************************)
\* groupRows without the "exists" test: every row appends its key to groupOrder
RECURSIVE groupRowsNoExistsTest(_, _, _, _)
groupRowsNoExistsTest(rows, groupByField, i, acc) ==
    IF i > Len(rows) THEN acc
    ELSE LET key == Get(rows[i], groupByField)
             exists == key \in DOMAIN acc.groups
             groups == [k \in DOMAIN acc.groups \cup {key} |->
                          IF k = key
                          THEN (IF exists THEN Append(acc.groups[k], rows[i])
                                ELSE <<rows[i]>>)
                          ELSE acc.groups[k]]
         IN groupRowsNoExistsTest(rows, groupByField, i + 1,
                      [groups |-> groups,
                       groupOrder |-> Append(acc.groupOrder, key)])

\* first loop: groups[key] = append(groups[key], row), groupOrder in order of
\* first occurrence
RECURSIVE groupRows(_, _, _, _)
groupRows(rows, groupByField, i, acc) ==
    IF i > Len(rows) THEN acc
    ELSE LET key == Get(rows[i], groupByField)
             exists == key \in DOMAIN acc.groups
             order == IF exists THEN acc.groupOrder
                      ELSE Append(acc.groupOrder, key)
             groups == [k \in DOMAIN acc.groups \cup {key} |->
                          IF k = key
                          THEN (IF exists THEN Append(acc.groups[k], rows[i])
                                ELSE <<rows[i]>>)
                          ELSE acc.groups[k]]
         IN groupRows(rows, groupByField, i + 1,
                      [groups |-> groups, groupOrder |-> order])

\* the inner loop numbering the line items of every transaction from 1
lineItemsOfRestarting(rows, lineItemCounter) ==
    [j \in 1..Len(rows) |-> [ID |-> j, Fields |-> rows[j]]]

\* inner loop: one LineItem per row of the group, ID = lineItemCounter++
lineItemsOf(rows, lineItemCounter) ==
    [j \in 1..Len(rows) |->
        [ID |-> lineItemCounter + (j - 1), Fields |-> rows[j]]]

\* convertGroups numbering a transaction by the ID of its first line item
RECURSIVE convertGroupsIDFromCounter(_, _, _, _, _)
convertGroupsIDFromCounter(groupOrder, groups, i, lineItemCounter, out) ==
    IF i > Len(groupOrder) THEN out
    ELSE LET key == groupOrder[i]
             rows == groups[key]
         IN convertGroupsIDFromCounter(groupOrder, groups, i + 1,
                lineItemCounter + Len(rows),
                Append(out, [ID |-> lineItemCounter, GroupKey |-> key,
                             LineItems |-> lineItemsOf(rows, lineItemCounter)]))

\* second loop: groups to transactions, threading lineItemCounter
RECURSIVE convertGroups(_, _, _, _, _)
convertGroups(groupOrder, groups, i, lineItemCounter, out) ==
    IF i > Len(groupOrder) THEN out
    ELSE LET key == groupOrder[i]
             rows == groups[key]
         IN convertGroups(groupOrder, groups, i + 1,
                lineItemCounter + Len(rows),
                Append(out, [ID |-> i, GroupKey |-> key,
                             LineItems |-> lineItemsOf(rows, lineItemCounter)]))

groupTransactions(rows, groupByField) ==
    IF groupByField = ""
    THEN [i \in 1..Len(rows) |->
            [ID |-> i, GroupKey |-> EmptyStr,
             LineItems |-> <<[ID |-> i, Fields |-> rows[i]]>>]]
    ELSE LET g == groupRows(rows, groupByField, 1,
                            [groups |-> <<>>, groupOrder |-> <<>>])
         IN convertGroups(g.groupOrder, g.groups, 1, 1, <<>>)

(***************************************************************************)
(* Schema: xlsxparser.ParseWithConfig over the data rows of a template     *)
(***************************************************************************)
NoMapping == [OldHeader |-> ""]

\* an empty ConditionalRule cell
NoRule == <<>>

\* ParentTag decides the list a header is categorised into; an unrecognised
\* parent tag defaults to the line item list
categoryOf(parentTag) ==
    CASE parentTag = "transaction" -> "transaction"
      [] parentTag = "lineitem" -> "lineitem"
      [] parentTag = "cashbook" -> "cashbook"
      [] OTHER -> "lineitem"

RECURSIVE parseTemplateRows(_, _, _)
parseTemplateRows(rows, i, schema) ==
    IF i > Len(rows) THEN schema
    ELSE LET mapping == [rows[i] EXCEPT !.Order = i]
             h == mapping.OldHeader
             cat == categoryOf(mapping.ParentTag)
         IN IF h = "" THEN parseTemplateRows(rows, i + 1, schema)
            ELSE parseTemplateRows(rows, i + 1,
                   [schema EXCEPT
                      !.FieldMappings =
                          [k \in DOMAIN schema.FieldMappings \cup {h} |->
                              IF k = h THEN mapping
                              ELSE schema.FieldMappings[k]],
                      !.TransactionFields =
                          IF cat = "transaction" THEN Append(@, h) ELSE @,
                      !.LineItemFields =
                          IF cat = "lineitem" THEN Append(@, h) ELSE @,
                      !.CashbookFields =
                          IF cat = "cashbook" THEN Append(@, h) ELSE @])

ParseWithConfig(rows) ==
    parseTemplateRows(rows, 1,
        [FieldMappings |-> <<>>,
         TransactionFields |-> <<>>,
         LineItemFields |-> <<>>,
         CashbookFields |-> <<>>,
         XMLRootElement |-> "cashbook",
         XMLTransactionElement |-> "transaction",
         XMLLineItemElement |-> "lineItem"])

GetFieldMapping(schema, oldHeader) ==
    IF oldHeader \in DOMAIN schema.FieldMappings
    THEN schema.FieldMappings[oldHeader]
    ELSE NoMapping

\* a row of the template sheet
TemplateRow(h, tag, parent, dataType, maxLength, required) ==
    [OldHeader |-> h, XMLTag |-> tag, ParentTag |-> parent,
     DataType |-> dataType, MaxLength |-> maxLength,
     RequiredType |-> required, ConditionalRule |-> NoRule, Order |-> 0]

(***************************************************************************)
(* Document assembler: xmlwriter.GenerateWithOptions                       *)
(***************************************************************************)
DefaultGenerateOptions ==
    [LineItemNumberingGlobal |-> TRUE,
     TransactionIndexAttribute |-> "n",
     LineItemIndexAttribute |-> "n"]

createSimpleElement(name, value) ==
    [XMLName |-> name, Attributes |-> <<>>, Value |-> value, Children |-> <<>>]

\* sort.Slice by FieldMapping.Order (the orders of a parsed schema are the
\* distinct row indexes of the template)
RECURSIVE insertByOrder(_, _, _)
insertByOrder(sorted, h, schema) ==
    IF sorted = <<>> THEN <<h>>
    ELSE IF GetFieldMapping(schema, h).Order
              < GetFieldMapping(schema, Head(sorted)).Order
         THEN <<h>> \o sorted
         ELSE <<Head(sorted)>> \o insertByOrder(Tail(sorted), h, schema)

RECURSIVE getOrderedFields(_, _)
getOrderedFields(fields, schema) ==
    IF fields = <<>> THEN <<>>
    ELSE insertByOrder(getOrderedFields(Tail(fields), schema),
                       Head(fields), schema)

\* static fields of one parent level, in configuration order
RECURSIVE staticElements(_, _)
staticElements(staticFields, parent) ==
    IF staticFields = <<>> THEN <<>>
    ELSE (IF Head(staticFields).ParentTag = parent
          THEN <<createSimpleElement(Head(staticFields).XMLTag,
                                     Head(staticFields).Value)>>
          ELSE <<>>) \o staticElements(Tail(staticFields), parent)

\* the emission rule without the test of the requirement: a required field
\* with an empty value is dropped like an optional one
RECURSIVE schemaElementsNonEmptyOnly(_, _, _)
schemaElementsNonEmptyOnly(ordered, fields, schema) ==
    IF ordered = <<>> THEN <<>>
    ELSE LET mapping == GetFieldMapping(schema, Head(ordered))
             value == Get(fields, Head(ordered))
         IN (IF mapping # NoMapping /\ value # EmptyStr
             THEN <<createSimpleElement(mapping.XMLTag, value)>>
             ELSE <<>>) \o schemaElementsNonEmptyOnly(Tail(ordered), fields, schema)

\* schema fields of one element: emitted when non-empty or required
RECURSIVE schemaElements(_, _, _)
schemaElements(ordered, fields, schema) ==
    IF ordered = <<>> THEN <<>>
    ELSE LET mapping == GetFieldMapping(schema, Head(ordered))
             value == Get(fields, Head(ordered))
         IN (IF mapping # NoMapping
                /\ (value # EmptyStr \/ mapping.RequiredType = "required")
             THEN <<createSimpleElement(mapping.XMLTag, value)>>
             ELSE <<>>) \o schemaElements(Tail(ordered), fields, schema)

\* the index a line item is emitted with
lineItemIndex(lineItem, options, globalLineItemIndex) ==
    IF options.LineItemNumberingGlobal THEN globalLineItemIndex
    ELSE lineItem.ID

buildLineItemElement(lineItem, schema, deptConfig, options, globalLineItemIndex) ==
    [XMLName |-> schema.XMLLineItemElement,
     Attributes |-> <<[Name |-> options.LineItemIndexAttribute,
                       Value |-> Itoa(lineItemIndex(lineItem, options,
                                                    globalLineItemIndex))]>>,
     Value |-> EmptyStr,
     Children |-> staticElements(deptConfig.StaticFields, "lineitem")
                  \o schemaElements(getOrderedFields(schema.LineItemFields, schema),
                                    lineItem.Fields, schema)]

\* the loop over transaction.LineItems: returns the elements and the counter
RECURSIVE buildLineItems(_, _, _, _, _, _)
buildLineItems(lineItems, schema, deptConfig, options, globalLineItemIndex, out) ==
    IF lineItems = <<>>
    THEN [elements |-> out, globalLineItemIndex |-> globalLineItemIndex]
    ELSE buildLineItems(Tail(lineItems), schema, deptConfig, options,
            IF options.LineItemNumberingGlobal THEN globalLineItemIndex + 1
            ELSE globalLineItemIndex,
            Append(out, buildLineItemElement(Head(lineItems), schema, deptConfig,
                                             options, globalLineItemIndex)))

\* returns the transaction element and the advanced counter
buildTransactionElement(transaction, schema, deptConfig, options, globalLineItemIndex) ==
    LET items == buildLineItems(transaction.LineItems, schema, deptConfig,
                                options, globalLineItemIndex, <<>>)
        txFields == IF Len(transaction.LineItems) > 0
                    THEN schemaElements(
                            getOrderedFields(schema.TransactionFields, schema),
                            transaction.LineItems[1].Fields, schema)
                    ELSE <<>>
    IN [element |->
          [XMLName |-> schema.XMLTransactionElement,
           Attributes |-> <<[Name |-> options.TransactionIndexAttribute,
                             Value |-> Itoa(transaction.ID)]>>,
           Value |-> EmptyStr,
           Children |-> staticElements(deptConfig.StaticFields, "transaction")
                        \o txFields \o items.elements],
        globalLineItemIndex |-> items.globalLineItemIndex]

\* buildTransactions passing the counter by value: every transaction starts
\* from the same index
RECURSIVE buildTransactionsByValue(_, _, _, _, _, _)
buildTransactionsByValue(transactions, schema, deptConfig, options, globalLineItemIndex, out) ==
    IF transactions = <<>> THEN out
    ELSE LET r == buildTransactionElement(Head(transactions), schema,
                      deptConfig, options, globalLineItemIndex)
         IN buildTransactionsByValue(Tail(transactions), schema, deptConfig,
                              options, globalLineItemIndex, Append(out, r.element))

\* the loop over the transactions, threading &globalLineItemIndex
RECURSIVE buildTransactions(_, _, _, _, _, _)
buildTransactions(transactions, schema, deptConfig, options, globalLineItemIndex, out) ==
    IF transactions = <<>> THEN out
    ELSE LET r == buildTransactionElement(Head(transactions), schema,
                      deptConfig, options, globalLineItemIndex)
         IN buildTransactions(Tail(transactions), schema, deptConfig, options,
                              r.globalLineItemIndex, Append(out, r.element))

buildDocument(transactions, schema, deptConfig, options) ==
    [XMLName |-> schema.XMLRootElement,
     Attributes |-> <<>>,
     Children |-> staticElements(deptConfig.StaticFields, "cashbook")
                  \o buildTransactions(transactions, schema, deptConfig,
                                       options, 1, <<>>)]

GenerateWithOptions(transactions, schema, deptConfig, options) ==
    buildDocument(transactions, schema, deptConfig, options)

Generate(transactions, schema, deptConfig) ==
    GenerateWithOptions(transactions, schema, deptConfig, DefaultGenerateOptions)

\* reading a document back: the transaction elements and their line items
transactionElements(doc) ==
    SelectSeq(doc.Children, LAMBDA e : e.XMLName = "transaction")

lineItemElements(txElement) ==
    SelectSeq(txElement.Children, LAMBDA e : e.XMLName = "lineItem")

indexOf(element) == Atoi(element.Attributes[1].Value)

RECURSIVE allLineItemElements(_)
allLineItemElements(txElements) ==
    IF txElements = <<>> THEN <<>>
    ELSE lineItemElements(Head(txElements))
         \o allLineItemElements(Tail(txElements))

(***************************************************************************)
(* Validation engine                                                       *)
(***************************************************************************)
RECURSIVE trimLeft(_)
trimLeft(s) == IF s # <<>> /\ Head(s) \in Spaces THEN trimLeft(Tail(s)) ELSE s

RECURSIVE trimRight(_)
trimRight(s) ==
    IF s # <<>> /\ s[Len(s)] \in Spaces
    THEN trimRight(SubSeq(s, 1, Len(s) - 1)) ELSE s

TrimSpace(s) == trimRight(trimLeft(s))

lowerChar(c) ==
    CASE c = "A" -> "a" [] c = "B" -> "b" [] c = "C" -> "c" [] c = "D" -> "d"
      [] c = "I" -> "i" [] c = "N" -> "n" [] c = "S" -> "s" [] c = "Y" -> "y"
      [] OTHER -> c

ToLower(s) == [i \in 1..Len(s) |-> lowerChar(s[i])]

AllIn(s, class) == \A i \in 1..Len(s) : s[i] \in class

\* strconv.ParseInt(value, 10, 64) succeeds: optional sign, then digits
ParsesAsInt(s) ==
    LET body == IF s # <<>> /\ Head(s) \in {"+", "-"} THEN Tail(s) ELSE s
    IN body # <<>> /\ AllIn(body, Digits)

validateNumeric(value) ==
    LET v == TrimSpace(value)
    IN IF v = EmptyStr THEN "" ELSE IF ParsesAsInt(v) THEN ""
       ELSE "not a valid integer"

validateAlphanumeric(value) ==
    IF AllIn(value, Letters \cup Digits \cup Spaces) THEN ""
    ELSE "contains non-alphanumeric characters"

validateAlpha(value) ==
    IF AllIn(value, Letters \cup Spaces) THEN ""
    ELSE "contains non-alphabetic characters"

BooleanTokens ==
    {<<"t", "r", "u", "e">>, <<"f", "a", "l", "s", "e">>, <<"y", "e", "s">>,
     <<"n", "o">>, <<"1">>, <<"0">>, <<"y">>, <<"n">>, <<"t">>, <<"f">>}

validateBoolean(value) ==
    IF ToLower(TrimSpace(value)) \in BooleanTokens THEN ""
    ELSE "not a valid boolean"

\* the decimal(..) and date(..) types are outside the template rows drawn here
validateDataType(value, dataType) ==
    CASE dataType = "string" \/ dataType = "" -> ""
      [] dataType = "numeric" -> validateNumeric(value)
      [] dataType = "alphanumeric" -> validateAlphanumeric(value)
      [] dataType = "alpha" -> validateAlpha(value)
      [] dataType = "boolean" -> validateBoolean(value)
      [] OTHER -> ""

\* regexp character classes \w, \s and \d
WordChars == Letters \cup Digits \cup {"_"}

\* the end of the run of characters of a class that starts at position i
RECURSIVE runEnd(_, _, _)
runEnd(s, i, class) ==
    IF i > Len(s) \/ s[i] \notin class THEN i ELSE runEnd(s, i + 1, class)

\* the position of the next quote at or after i (Len(s) + 1 when none): [^']*
RECURSIVE quoteEnd(_, _)
quoteEnd(s, i) ==
    IF i > Len(s) \/ s[i] = "'" THEN i ELSE quoteEnd(s, i + 1)

hasAt(s, i, lit) ==
    i + Len(lit) - 1 <= Len(s) /\ SubSeq(s, i, i + Len(lit) - 1) = lit

\* strings.TrimPrefix
TrimPrefix(s, prefix) ==
    IF hasAt(s, 1, prefix) THEN SubSeq(s, Len(prefix) + 1, Len(s)) ELSE s

\* strings.HasPrefix
HasPrefix(s, prefix) == hasAt(s, 1, prefix)

NoMatch == [ok |-> FALSE, name |-> <<>>, arg |-> <<>>]

\* (\w+)\s*OP\s*'([^']*)' with the word starting at i; minSpace = 1 for the
\* \s+ of the starts_with pattern
matchQuotedAt(s, i, op, minSpace) ==
    LET e == runEnd(s, i, WordChars)
        a == runEnd(s, e, Spaces)
        b == a + Len(op)
        c == runEnd(s, b, Spaces)
        d == quoteEnd(s, c + 1)
    IN IF /\ a - e >= minSpace
          /\ hasAt(s, a, op)
          /\ c - b >= minSpace
          /\ c <= Len(s) /\ s[c] = "'"
          /\ d <= Len(s)
       THEN [ok |-> TRUE, name |-> SubSeq(s, i, e - 1),
             arg |-> SubSeq(s, c + 1, d - 1)]
       ELSE NoMatch

\* (\w+)\s*OP\s*(\d+(?:\.\d+)?) with the word starting at i
matchNumberAt(s, i, op) ==
    LET e == runEnd(s, i, WordChars)
        a == runEnd(s, e, Spaces)
        b == a + Len(op)
        c == runEnd(s, b, Spaces)
        d == runEnd(s, c, Digits)
        f == IF d + 1 <= Len(s) /\ s[d] = "." /\ s[d + 1] \in Digits
             THEN runEnd(s, d + 1, Digits) ELSE d
    IN IF hasAt(s, a, op) /\ d > c
       THEN [ok |-> TRUE, name |-> SubSeq(s, i, e - 1),
             arg |-> SubSeq(s, c, f - 1)]
       ELSE NoMatch

\* (\w+)\s+KEYWORD with the word starting at i
matchKeywordAt(s, i, keyword) ==
    LET e == runEnd(s, i, WordChars)
        a == runEnd(s, e, Spaces)
    IN IF a - e >= 1 /\ hasAt(s, a, keyword)
       THEN [ok |-> TRUE, name |-> SubSeq(s, i, e - 1), arg |-> <<>>]
       ELSE NoMatch

\* the positions a leftmost match of (\w+)... can start at: the starts of
\* the runs of word characters
wordStarts(s) ==
    {i \in 1..Len(s) : s[i] \in WordChars /\ (i = 1 \/ s[i - 1] \notin WordChars)}

Min(S) == CHOOSE x \in S : \A y \in S : x <= y

\* FindStringSubmatch of the pattern of the given operator: the leftmost match
findSubmatch(s, op) ==
    LET at(i) ==
            CASE op \in {<<"=", "=">>, <<"!", "=">>} -> matchQuotedAt(s, i, op, 0)
              [] op \in {<<">">>, <<"<">>} -> matchNumberAt(s, i, op)
              [] op = <<"s", "t", "a", "r", "t", "s", "_", "w", "i", "t", "h">> ->
                    matchQuotedAt(s, i, op, 1)
              [] OTHER -> matchKeywordAt(s, i, op)
        found == {i \in wordStarts(s) : at(i).ok}
    IN IF found = {} THEN NoMatch ELSE at(Min(found))

\* the spelling of a field name of the model
Spelling(k) ==
    CASE k = "CheckNumber"
           -> <<"C", "h", "e", "c", "k", "N", "u", "m", "b", "e", "r">>
      [] k = "Amount" -> <<"A", "m", "o", "u", "n", "t">>
      [] k = "BatchID" -> <<"B", "a", "t", "c", "h", "I", "D">>
      [] OTHER -> <<k>>

\* fields[fieldName]: the zero value of a missing key is the empty string
fieldNamed(fields, name) ==
    LET keys == {k \in DOMAIN fields : Spelling(k) = name}
    IN IF keys = {} THEN EmptyStr ELSE fields[CHOOSE k \in keys : TRUE]

RECURSIVE Pow10(_)
Pow10(k) == IF k = 0 THEN 1 ELSE 10 * Pow10(k - 1)

RECURSIVE digitsValue(_, _)
digitsValue(s, acc) ==
    IF s = <<>> THEN acc ELSE digitsValue(Tail(s), acc * 10 + DigitVal(Head(s)))

\* strconv.ParseFloat(s, 64) with the error dropped, as the number n / 10^k:
\* an optional sign, digits, an optional point and digits; 0 on a syntax
\* error (exponent, hexadecimal, inf and nan spellings are not drawn)
ParseFloat(s) ==
    LET neg == s # <<>> /\ Head(s) = "-"
        body == IF s # <<>> /\ Head(s) \in {"+", "-"} THEN Tail(s) ELSE s
        d == runEnd(body, 1, Digits)
        int == SubSeq(body, 1, d - 1)
        frac == IF d <= Len(body) /\ body[d] = "."
                THEN SubSeq(body, d + 1, Len(body)) ELSE <<>>
        wellFormed == /\ AllIn(frac, Digits)
                      /\ Len(int) + Len(frac) > 0
                      /\ (d > Len(body) \/ body[d] = ".")
        n == digitsValue(int \o frac, 0)
    IN IF wellFormed THEN [n |-> IF neg THEN 0 - n ELSE n, k |-> Len(frac)]
       ELSE [n |-> 0, k |-> 0]

FloatLess(x, y) == x.n * Pow10(y.k) < y.n * Pow10(x.k)

OpEq == <<"=", "=">>
OpNe == <<"!", "=">>
OpGt == <<">">>
OpLt == <<"<">>
OpStartsWith == <<"s", "t", "a", "r", "t", "s", "_", "w", "i", "t", "h">>
OpIsEmpty == <<"i", "s", "_", "e", "m", "p", "t", "y">>
OpIsNotEmpty == <<"i", "s", "_", "n", "o", "t", "_", "e", "m", "p", "t", "y">>

\* the patterns with starts_with tried before the comparisons
ConditionPatternsStartsWithFirst ==
    <<OpStartsWith, OpEq, OpNe, OpGt, OpLt, OpIsEmpty, OpIsNotEmpty>>

\* the patterns in the order evaluateCondition tries them
ConditionPatterns ==
    <<OpEq, OpNe, OpGt, OpLt, OpStartsWith, OpIsEmpty, OpIsNotEmpty>>

\* the result of the pattern of an operator on its submatches
conditionResult(op, m, fields) ==
    LET actualValue == fieldNamed(fields, m.name)
    IN CASE op = OpEq -> actualValue = m.arg
         [] op = OpNe -> actualValue # m.arg
         [] op = OpGt -> FloatLess(ParseFloat(m.arg), ParseFloat(actualValue))
         [] op = OpLt -> FloatLess(ParseFloat(actualValue), ParseFloat(m.arg))
         [] op = OpStartsWith -> HasPrefix(actualValue, m.arg)
         [] op = OpIsEmpty -> actualValue = EmptyStr
         [] op = OpIsNotEmpty -> actualValue # EmptyStr

\* the first pattern, from the k-th on, that matches decides; none: false
RECURSIVE evaluateFrom(_, _, _, _)
evaluateFrom(patterns, k, rule, fields) ==
    IF k > Len(patterns) THEN FALSE
    ELSE LET m == findSubmatch(rule, patterns[k])
         IN IF m.ok THEN conditionResult(patterns[k], m, fields)
            ELSE evaluateFrom(patterns, k + 1, rule, fields)

evaluateCondition(rule, fields) ==
    evaluateFrom(ConditionPatterns, 1,
                 TrimSpace(TrimPrefix(rule, <<"i", "f", " ">>)), fields)

ValidationError(severity, mapping, value, rule, transaction, lineItem) ==
    [Severity |-> severity, Field |-> mapping.OldHeader, Value |-> value,
     Rule |-> rule, TransactionID |-> transaction.ID,
     LineItemID |-> lineItem.ID]

\* the checks of ValidateField on a value that is not empty: the conditional
\* requirement, the maximum length and the data type, each appending
checkNonEmpty(value, mapping, transaction, lineItem) ==
    (IF mapping.RequiredType = "conditional"
        /\ mapping.ConditionalRule # NoRule
        /\ evaluateCondition(mapping.ConditionalRule, lineItem.Fields)
        /\ value = EmptyStr
     THEN <<ValidationError("error", mapping, value,
                            "conditional_required", transaction, lineItem)>>
     ELSE <<>>)
    \o (IF mapping.MaxLength > 0 /\ Len(value) > mapping.MaxLength
        THEN <<ValidationError("error", mapping, value, "max_length",
                               transaction, lineItem)>>
        ELSE <<>>)
    \o (IF validateDataType(value, mapping.DataType) # ""
        THEN <<ValidationError("error", mapping, value, "data_type",
                               transaction, lineItem)>>
        ELSE <<>>)

\* ValidateField going on after the finding of an empty required field
ValidateFieldNoReturn(value, mapping, transaction, lineItem) ==
    IF mapping.RequiredType = "required" /\ value = EmptyStr
    THEN <<ValidationError("error", mapping, value, "required",
                           transaction, lineItem)>>
         \o checkNonEmpty(value, mapping, transaction, lineItem)
    ELSE IF value = EmptyStr THEN <<>>
    ELSE checkNonEmpty(value, mapping, transaction, lineItem)

\* ValidateField with the conditional requirement tested before the return
\* on an empty value
ValidateFieldConditionalFirst(value, mapping, transaction, lineItem) ==
    IF mapping.RequiredType = "required" /\ value = EmptyStr
    THEN <<ValidationError("error", mapping, value, "required",
                           transaction, lineItem)>>
    ELSE IF mapping.RequiredType = "conditional"
            /\ mapping.ConditionalRule # NoRule
            /\ evaluateCondition(mapping.ConditionalRule, lineItem.Fields)
            /\ value = EmptyStr
    THEN <<ValidationError("error", mapping, value, "conditional_required",
                           transaction, lineItem)>>
    ELSE IF value = EmptyStr THEN <<>>
    ELSE checkNonEmpty(value, mapping, transaction, lineItem)

\* ValidateField returning after the first finding
ValidateFieldFirstOnly(value, mapping, transaction, lineItem) ==
    IF mapping.RequiredType = "required" /\ value = EmptyStr
    THEN <<ValidationError("error", mapping, value, "required",
                           transaction, lineItem)>>
    ELSE IF value = EmptyStr THEN <<>>
    ELSE LET errors == checkNonEmpty(value, mapping, transaction, lineItem)
         IN IF errors = <<>> THEN <<>> ELSE <<Head(errors)>>

ValidateField(value, mapping, transaction, lineItem) ==
    IF mapping.RequiredType = "required" /\ value = EmptyStr
    THEN <<ValidationError("error", mapping, value, "required",
                           transaction, lineItem)>>
    ELSE IF value = EmptyStr THEN <<>>
    ELSE checkNonEmpty(value, mapping, transaction, lineItem)

DefaultValidationOptions ==
    [StopOnFirstError |-> FALSE, TreatWarningsAsErrors |-> FALSE,
     SkipOptionalValidation |-> FALSE]

\* the orders in which a Go map range can visit the keys of a line item
Perms(S) ==
    {p \in [1..Cardinality(S) -> S] :
        \A i, j \in 1..Cardinality(S) : i # j => p[i] # p[j]}

\* ValidateLineItem with the visiting order of lineItem.Fields made explicit
RECURSIVE validateFieldsInOrder(_, _, _, _, _)
validateFieldsInOrder(order, schema, options, transaction, lineItem) ==
    IF order = <<>> THEN <<>>
    ELSE LET fieldName == Head(order)
             mapping == GetFieldMapping(schema, fieldName)
             rest == validateFieldsInOrder(Tail(order), schema, options,
                                           transaction, lineItem)
         IN IF mapping = NoMapping THEN rest
            ELSE IF options.SkipOptionalValidation
                    /\ mapping.RequiredType = "optional" THEN rest
            ELSE ValidateField(lineItem.Fields[fieldName], mapping,
                               transaction, lineItem) \o rest

ValidateLineItem(schema, options, transaction, lineItem, order) ==
    validateFieldsInOrder(order, schema, options, transaction, lineItem)

\* ValidateTransaction: the findings of the line items, in order; visit[j] is
\* the map order of the j-th line item
RECURSIVE validateLineItems(_, _, _, _, _)
validateLineItems(schema, options, transaction, j, visit) ==
    IF j > Len(transaction.LineItems) THEN <<>>
    ELSE ValidateLineItem(schema, options, transaction,
                          transaction.LineItems[j], visit[j])
         \o validateLineItems(schema, options, transaction, j + 1, visit)

ValidateTransaction(schema, options, transaction, visit) ==
    validateLineItems(schema, options, transaction, 1, visit)

\* collectErrors without the return under StopOnFirstError
RECURSIVE collectErrorsNoStop(_, _, _)
collectErrorsNoStop(transactionErrors, options, result) ==
    IF transactionErrors = <<>> THEN result
    ELSE LET err == Head(transactionErrors)
             r1 == [result EXCEPT !.Errors = Append(@, err)]
         IN IF err.Severity = "error"
            THEN collectErrorsNoStop(Tail(transactionErrors), options,
                    [r1 EXCEPT !.ErrorCount = @ + 1, !.IsValid = FALSE])
            ELSE collectErrorsNoStop(Tail(transactionErrors), options,
                    [r1 EXCEPT !.WarningCount = @ + 1,
                               !.IsValid = IF options.TreatWarningsAsErrors
                                           THEN FALSE ELSE @])

\* the inner loop of ValidateAll over the findings of one transaction
RECURSIVE collectErrors(_, _, _)
collectErrors(transactionErrors, options, result) ==
    IF transactionErrors = <<>> THEN result
    ELSE LET err == Head(transactionErrors)
             r1 == [result EXCEPT !.Errors = Append(@, err)]
         IN IF err.Severity = "error"
            THEN LET r2 == [r1 EXCEPT !.ErrorCount = @ + 1,
                                      !.IsValid = FALSE]
                 IN IF options.StopOnFirstError
                    THEN [r2 EXCEPT !.stopped = TRUE]
                    ELSE collectErrors(Tail(transactionErrors), options, r2)
            ELSE collectErrors(Tail(transactionErrors), options,
                    [r1 EXCEPT !.WarningCount = @ + 1,
                               !.IsValid = IF options.TreatWarningsAsErrors
                                           THEN FALSE ELSE @])

\* the outer loop of ValidateAll; visits[i][j] is the map order of line item j
\* of transaction i
RECURSIVE validateFrom(_, _, _, _, _, _)
validateFrom(transactions, schema, options, i, visits, result) ==
    IF i > Len(transactions) \/ result.stopped THEN result
    ELSE validateFrom(transactions, schema, options, i + 1, visits,
            collectErrors(ValidateTransaction(schema, options,
                                              transactions[i], visits[i]),
                          options, result))

ValidateAll(transactions, schema, options, visits) ==
    validateFrom(transactions, schema, options, 1, visits,
        [IsValid |-> TRUE, Errors |-> <<>>, ErrorCount |-> 0,
         WarningCount |-> 0, TransactionsValidated |-> Len(transactions),
         stopped |-> FALSE])

\* validation.Validate: default options, the findings only
Validate(transactions, schema, visits) ==
    ValidateAll(transactions, schema, DefaultValidationOptions, visits).Errors

\* every choice of map visiting orders for the line items of a transaction
VisitsOfTx(transaction) ==
    {v \in [1..Len(transaction.LineItems) ->
              UNION {Perms(DOMAIN transaction.LineItems[j].Fields) :
                       j \in 1..Len(transaction.LineItems)}] :
        \A j \in 1..Len(transaction.LineItems) :
            v[j] \in Perms(DOMAIN transaction.LineItems[j].Fields)}

Visits(transactions) ==
    {v \in [1..Len(transactions) ->
              UNION {VisitsOfTx(transactions[i]) : i \in 1..Len(transactions)}] :
        \A i \in 1..Len(transactions) : v[i] \in VisitsOfTx(transactions[i])}

(***************************************************************************)
(* Serialisation: marshalWithIndent, writeElement and escapeXML            *)
(***************************************************************************)
\* a Go string is a sequence of bytes: "xE9" stands for one byte that is not
\* a valid UTF-8 encoding, "uFFFD" for the replacement character U+FFFD
InvalidBytes == {"xE9"}
ReplacementChar == "uFFFD"

\* for _, r := range s: a byte that does not decode yields the rune U+FFFD
decodeRune(b) == IF b \in InvalidBytes THEN ReplacementChar ELSE b

\* the switch on one rune; WriteRune writes the rune that range produced
escapeRune(r) ==
    CASE r = "&" -> <<"&", "a", "m", "p", ";">>
      [] r = "<" -> <<"&", "l", "t", ";">>
      [] r = ">" -> <<"&", "g", "t", ";">>
      [] r = "\"" -> <<"&", "q", "u", "o", "t", ";">>
      [] r = "'" -> <<"&", "a", "p", "o", "s", ";">>
      [] OTHER -> <<r>>

RECURSIVE escapeXML(_)
escapeXML(s) ==
    IF s = <<>> THEN <<>>
    ELSE escapeRune(decodeRune(Head(s))) \o escapeXML(Tail(s))

\* fmt.Sprintf(" %s=\"%s\"", attr.Name.Local, escapeXML(attr.Value))
RECURSIVE writeAttributes(_)
writeAttributes(attributes) ==
    IF attributes = <<>> THEN <<>>
    ELSE <<" ">> \o Spelling(Head(attributes).Name) \o <<"=", "\"">>
         \o escapeXML(Head(attributes).Value) \o <<"\"">>
         \o writeAttributes(Tail(attributes))

RECURSIVE writeIndent(_, _)
writeIndent(indent, level) ==
    IF level = 0 THEN <<>> ELSE indent \o writeIndent(indent, level - 1)

RECURSIVE writeElement(_, _, _)
RECURSIVE writeChildren(_, _, _)
writeElement(element, indent, level) ==
    writeIndent(indent, level)
    \o <<"<">> \o Spelling(element.XMLName)
    \o writeAttributes(element.Attributes)
    \o (IF Len(element.Children) = 0 /\ element.Value = EmptyStr
        THEN <<"/", ">", "\n">>
        ELSE <<">">>
             \o (IF element.Value # EmptyStr
                 THEN escapeXML(element.Value)
                 ELSE <<"\n">>
                      \o writeChildren(element.Children, indent, level + 1)
                      \o writeIndent(indent, level))
             \o <<"<", "/">> \o Spelling(element.XMLName) \o <<">", "\n">>)

writeChildren(children, indent, level) ==
    IF children = <<>> THEN <<>>
    ELSE writeElement(Head(children), indent, level)
         \o writeChildren(Tail(children), indent, level)

marshalWithIndent(doc, indent) ==
    <<"<">> \o Spelling(doc.XMLName)
    \o writeAttributes(doc.Attributes)
    \o <<">", "\n">>
    \o writeChildren(doc.Children, indent, 1)
    \o <<"<", "/">> \o Spelling(doc.XMLName) \o <<">", "\n">>

(***************************************************************************)
(* Transformation step of Converter.Run: applyTransformations, applyAction *)
(***************************************************************************)
\* placeholders of the converter module: they return their argument
parseIntOrDefault(s, defaultValue) == defaultValue
toUpperCase(s) == s
toLowerCase(s) == s
trimSpace(s) == s
replaceString(s, old, new) == s

padLeft(s, length, padChar) ==
    IF Len(s) >= length THEN s
    ELSE [i \in 1..(length - Len(s)) |-> padChar] \o s

Action(type, value) ==
    [Type |-> type, Value |-> value, Find |-> EmptyStr, LookupTable |-> <<>>]

\* returns the value and the error ("" is nil)
applyAction(value, action) ==
    CASE action.Type = "prepend_string" ->
            [value |-> action.Value \o value, err |-> ""]
      [] action.Type = "append_string" ->
            [value |-> value \o action.Value, err |-> ""]
      [] action.Type = "pad_zeros_to_length" ->
            LET targetLength == parseIntOrDefault(action.Value, 0)
            IN IF targetLength <= 0 THEN [value |-> value, err |-> ""]
               ELSE [value |-> padLeft(value, targetLength, "0"), err |-> ""]
      [] action.Type = "ensure_length" ->
            LET targetLength == parseIntOrDefault(action.Value, 0)
            IN IF targetLength <= 0 THEN [value |-> value, err |-> ""]
               ELSE IF Len(value) > targetLength
                    THEN [value |-> SubSeq(value, 1, targetLength), err |-> ""]
                    ELSE [value |-> padLeft(value, targetLength, "0"), err |-> ""]
      [] action.Type = "uppercase" -> [value |-> toUpperCase(value), err |-> ""]
      [] action.Type = "lowercase" -> [value |-> toLowerCase(value), err |-> ""]
      [] action.Type = "trim" -> [value |-> trimSpace(value), err |-> ""]
      [] action.Type = "replace" ->
            [value |-> replaceString(value, action.Find, action.Value), err |-> ""]
      [] action.Type = "lookup" ->
            IF value \in DOMAIN action.LookupTable
            THEN [value |-> action.LookupTable[value], err |-> ""]
            ELSE [value |-> value, err |-> ""]
      [] action.Type = "conditional" -> [value |-> value, err |-> ""]
      [] OTHER -> [value |-> value, err |-> "unknown transformation type"]

\* the actions of one rule in sequence, stopping at the first error
RECURSIVE applyActions(_, _)
applyActions(value, actions) ==
    IF actions = <<>> THEN [value |-> value, err |-> ""]
    ELSE LET r == applyAction(value, Head(actions))
         IN IF r.err # "" THEN r ELSE applyActions(r.value, Tail(actions))

\* applyRules skipping a rule whose action fails instead of returning the error
RECURSIVE applyRulesIgnoringErrors(_, _)
applyRulesIgnoringErrors(fields, rules) ==
    IF rules = <<>> THEN [fields |-> fields, err |-> ""]
    ELSE LET rule == Head(rules)
         IN IF rule.Field \notin DOMAIN fields
            THEN applyRulesIgnoringErrors(fields, Tail(rules))
            ELSE LET r == applyActions(fields[rule.Field], rule.Actions)
                 IN IF r.err # "" THEN applyRulesIgnoringErrors(fields, Tail(rules))
                    ELSE applyRulesIgnoringErrors(
                            [fields EXCEPT ![rule.Field] = r.value], Tail(rules))

\* the rules in sequence on the fields of one line item
RECURSIVE applyRules(_, _)
applyRules(fields, rules) ==
    IF rules = <<>> THEN [fields |-> fields, err |-> ""]
    ELSE LET rule == Head(rules)
         IN IF rule.Field \notin DOMAIN fields
            THEN applyRules(fields, Tail(rules))
            ELSE LET r == applyActions(fields[rule.Field], rule.Actions)
                 IN IF r.err # "" THEN [fields |-> fields, err |-> r.err]
                    ELSE applyRules([fields EXCEPT ![rule.Field] = r.value],
                                    Tail(rules))

\* applyTransformations on one transaction: the line items in sequence; the
\* fields are updated in place, so an error leaves the updates made before it
RECURSIVE applyToLineItems(_, _, _)
applyToLineItems(lineItems, rules, i) ==
    IF i > Len(lineItems) THEN [lineItems |-> lineItems, err |-> ""]
    ELSE LET r == applyRules(lineItems[i].Fields, rules)
         IN IF r.err # ""
            THEN [lineItems |-> [lineItems EXCEPT ![i].Fields = r.fields],
                  err |-> r.err]
            ELSE applyToLineItems([lineItems EXCEPT ![i].Fields = r.fields],
                                  rules, i + 1)

applyTransformations(transaction, rules) ==
    LET r == applyToLineItems(transaction.LineItems, rules, 1)
    IN [transaction |-> [transaction EXCEPT !.LineItems = r.lineItems],
        err |-> r.err]

\* the loop of Run over the transactions, returning at the first error
RECURSIVE transformAll(_, _, _)
transformAll(transactions, rules, i) ==
    IF i > Len(transactions) THEN [transactions |-> transactions, err |-> ""]
    ELSE LET r == applyTransformations(transactions[i], rules)
         IN IF r.err # ""
            THEN [transactions |-> [transactions EXCEPT ![i] = r.transaction],
                  err |-> r.err]
            ELSE transformAll([transactions EXCEPT ![i] = r.transaction],
                              rules, i + 1)

(***************************************************************************)
(* Transformation engine: Transformer.Transform and ApplyTransformation    *)
(***************************************************************************)
\* strconv.Atoi: an optional sign and digits, or an error
strconvAtoi(s) ==
    IF ParsesAsInt(s)
    THEN LET neg == Head(s) = "-"
             body == IF Head(s) \in {"+", "-"} THEN Tail(s) ELSE s
             n == digitsValue(body, 0)
         IN [ok |-> TRUE, n |-> IF neg THEN 0 - n ELSE n]
    ELSE [ok |-> FALSE, n |-> 0]

PadLeft(s, length, padChar) ==
    IF Len(s) >= length THEN s
    ELSE [i \in 1..(length - Len(s)) |-> padChar] \o s

PadRight(s, length, padChar) ==
    IF Len(s) >= length THEN s
    ELSE s \o [i \in 1..(length - Len(s)) |-> padChar]

upperChar(c) ==
    CASE c = "a" -> "A" [] c = "b" -> "B" [] c = "c" -> "C" [] c = "d" -> "D"
      [] c = "i" -> "I" [] c = "n" -> "N" [] c = "s" -> "S" [] c = "y" -> "Y"
      [] OTHER -> c

\* strings.TrimLeft(value, "0")
RECURSIVE trimLeftZeros(_)
trimLeftZeros(s) ==
    IF s # <<>> /\ Head(s) = "0" THEN trimLeftZeros(Tail(s)) ELSE s

\* the case labels of the switch of ApplyTransformation
TransformationKinds ==
    {"prepend_string", "append_string", "trim", "trim_left", "trim_right",
     "uppercase", "lowercase", "title_case", "replace", "regex_replace",
     "substring", "pad_zeros_to_length", "pad_spaces_to_length",
     "ensure_length", "format_number", "remove_leading_zeros", "format_date",
     "lookup", "lookup_with_default", "conditional", "if_empty_use_default",
     "if_empty_use_field", "extract_digits", "extract_letters",
     "remove_special_chars", "normalize_whitespace", "format_policy_number",
     "format_account_code", "format_currency"}

Ok(value) == [value |-> value, err |-> ""]

\* ensure_length without the truncation
ensureLengthPadOnly(value, action) ==
    LET a == strconvAtoi(action.Value)
    IN IF ~a.ok \/ a.n <= 0 THEN Ok(value)
       ELSE Ok(PadLeft(value, a.n, "0"))

\* case "ensure_length"
ensureLength(value, action) ==
    LET a == strconvAtoi(action.Value)
    IN IF ~a.ok \/ a.n <= 0 THEN Ok(value)
       ELSE IF Len(value) > a.n THEN Ok(SubSeq(value, 1, a.n))
       ELSE Ok(PadLeft(value, a.n, "0"))

\* the cases of the switch whose kinds the rulesets of the model use; an
\* unknown kind returns "" and an error
ApplyTransformation(value, action, allFields) ==
    CASE action.Type = "prepend_string" -> Ok(action.Value \o value)
      [] action.Type = "append_string" -> Ok(value \o action.Value)
      [] action.Type = "trim" -> Ok(TrimSpace(value))
      [] action.Type = "uppercase" ->
            Ok([k \in 1..Len(value) |-> upperChar(value[k])])
      [] action.Type = "lowercase" -> Ok(ToLower(value))
      [] action.Type = "pad_zeros_to_length" ->
            LET a == strconvAtoi(action.Value)
            IN IF ~a.ok \/ a.n <= 0 THEN Ok(value)
               ELSE Ok(PadLeft(value, a.n, "0"))
      [] action.Type = "pad_spaces_to_length" ->
            LET a == strconvAtoi(action.Value)
            IN IF ~a.ok \/ a.n <= 0 THEN Ok(value)
               ELSE Ok(PadRight(value, a.n, " "))
      [] action.Type = "ensure_length" -> ensureLength(value, action)
      [] action.Type = "remove_leading_zeros" ->
            IF trimLeftZeros(value) = <<>> THEN Ok(<<"0">>)
            ELSE Ok(trimLeftZeros(value))
      [] action.Type = "lookup" ->
            IF value \in DOMAIN action.LookupTable
            THEN Ok(action.LookupTable[value]) ELSE Ok(value)
      [] action.Type = "lookup_with_default" ->
            IF value \in DOMAIN action.LookupTable
            THEN Ok(action.LookupTable[value]) ELSE Ok(action.Value)
      [] action.Type \in {"conditional", "format_policy_number",
                          "format_account_code"} -> Ok(value)
      [] action.Type = "if_empty_use_default" ->
            IF TrimSpace(value) = EmptyStr THEN Ok(action.Value) ELSE Ok(value)
      [] action.Type = "if_empty_use_field" ->
            IF TrimSpace(value) = EmptyStr
               /\ \E k \in DOMAIN allFields : Spelling(k) = action.Value
            THEN Ok(fieldNamed(allFields, action.Value)) ELSE Ok(value)
      [] action.Type = "extract_digits" ->
            Ok(SelectSeq(value, LAMBDA c : c \in Digits))
      [] action.Type = "extract_letters" ->
            Ok(SelectSeq(value, LAMBDA c : c \in Letters))
      [] action.Type = "remove_special_chars" ->
            Ok(SelectSeq(value, LAMBDA c : c \in Letters \cup Digits))
      [] action.Type \notin TransformationKinds ->
            [value |-> EmptyStr, err |-> "unknown transformation type"]

\* the loop of Transform taking the actions from the last to the first
RECURSIVE applyChainRightToLeft(_, _, _)
applyChainRightToLeft(value, actions, allFields) ==
    IF actions = <<>> THEN Ok(value)
    ELSE LET r == ApplyTransformation(value, actions[Len(actions)], allFields)
         IN IF r.err # "" THEN [value |-> EmptyStr, err |-> r.err]
            ELSE applyChainRightToLeft(r.value,
                    SubSeq(actions, 1, Len(actions) - 1), allFields)

\* the loop of Transform over rule.Actions: each action receives the result
\* of the one before; an error returns "" and the error
RECURSIVE applyChain(_, _, _)
applyChain(value, actions, allFields) ==
    IF actions = <<>> THEN Ok(value)
    ELSE LET r == ApplyTransformation(value, Head(actions), allFields)
         IN IF r.err # "" THEN [value |-> EmptyStr, err |-> r.err]
            ELSE applyChain(r.value, Tail(actions), allFields)

\* the first rule of the field, or none
ruleOf(rules, fieldName) ==
    LET found == {k \in 1..Len(rules) : rules[k].Field = fieldName}
    IN IF found = {} THEN 0 ELSE Min(found)

Transform(rules, fieldName, value, allFields) ==
    IF ruleOf(rules, fieldName) = 0 THEN Ok(value)
    ELSE applyChain(value, rules[ruleOf(rules, fieldName)].Actions, allFields)

\* the loop of TransformLineItem storing the value Transform returns before
\* it looks at the error
RECURSIVE transformFieldsStoreFirst(_, _, _)
transformFieldsStoreFirst(fields, rules, order) ==
    IF order = <<>> THEN [fields |-> fields, err |-> ""]
    ELSE LET fieldName == Head(order)
             r == Transform(rules, fieldName, fields[fieldName], fields)
             stored == [fields EXCEPT ![fieldName] = r.value]
         IN IF r.err # "" THEN [fields |-> stored, err |-> r.err]
            ELSE transformFieldsStoreFirst(stored, rules, Tail(order))

\* the loop of TransformLineItem over lineItem.Fields, in the order the map
\* range visits the keys
RECURSIVE transformFields(_, _, _)
transformFields(fields, rules, order) ==
    IF order = <<>> THEN [fields |-> fields, err |-> ""]
    ELSE LET fieldName == Head(order)
             r == Transform(rules, fieldName, fields[fieldName], fields)
         IN IF r.err # "" THEN [fields |-> fields, err |-> r.err]
            ELSE transformFields([fields EXCEPT ![fieldName] = r.value],
                                 rules, Tail(order))

TransformLineItem(rules, lineItem, order) ==
    LET r == transformFields(lineItem.Fields, rules, order)
    IN [lineItem |-> [lineItem EXCEPT !.Fields = r.fields], err |-> r.err]

(***************************************************************************)
(* Output file name: Converter.generateOutputFileName                      *)
(***************************************************************************)
UUIDs == {"uuid-1", "uuid-2"}

\* a file name is its stem and its extension
generateOutputFileName(format, id, timestamp, departmentCode) ==
    LET n1 == replaceString(format, "{uuid}", id)
        n2 == replaceString(n1, "{timestamp}", timestamp)
        n3 == replaceString(n2, "{dept}", departmentCode)
    IN IF n3.ext # ".xml"
       THEN [stem |-> IF n3.ext = "" THEN n3.stem ELSE Append(n3.stem, n3.ext),
             ext |-> ".xml"]
       ELSE n3

(***************************************************************************)
(* Inputs of the direct calls                                              *)
(***************************************************************************)
GenKeys == {EmptyStr, <<"7">>, <<"8">>}
GenAmounts == {<<"1">>, <<"2">>}
GenRecords == [CheckNumber : GenKeys, Amount : GenAmounts]
GenGroupByFields == {"", "CheckNumber", "BatchID"}

SeqsUpTo(S, n) == UNION {[1..k -> S] : k \in 0..n}

\* the template the direct calls use: the group key is a transaction field
GenTemplate ==
    <<TemplateRow("CheckNumber", "CheckNumber", "transaction", "numeric", 0, "required"),
      TemplateRow("Amount", "Amount", "lineitem", "numeric", 0, "optional")>>

GenDeptConfig ==
    [StaticFields |-> <<[XMLTag |-> "Source", Value |-> <<"x">>,
                         ParentTag |-> "transaction"]>>]

NoDoc == [XMLName |-> "", Attributes |-> <<>>, Children |-> <<>>]

IdleGen == [pc |-> "idle", rows |-> <<>>, groupByField |-> "",
            options |-> DefaultGenerateOptions,
            transactions |-> <<>>, doc |-> NoDoc]
(***************************************************************************)
(* State of the orchestrator and of the pipeline of each unit              *)
(***************************************************************************)
NoError == [wrap |-> "nil", cause |-> "nil"]
NoFile == [stem |-> <<>>, ext |-> ""]

Errorf(wrap, cause) == [wrap |-> wrap, cause |-> cause]

NoStats == [RowsProcessed |-> 0, TransactionsCreated |-> 0,
            LineItemsCreated |-> 0, ValidationErrors |-> 0]

\* a Result that starts as a success
NewResultSucceeded(filePath) ==
    [FilePath |-> filePath, OutputFile |-> NoFile, Success |-> TRUE,
     Error |-> NoError, Stats |-> NoStats]

\* Result{FilePath: c.csvPath, Success: false}
NewResult(filePath) ==
    [FilePath |-> filePath, OutputFile |-> NoFile, Success |-> FALSE,
     Error |-> NoError, Stats |-> NoStats]

NoSchema == ParseWithConfig(<<>>)

\* a goroutine that has not been launched yet
NoWorker ==
    [pc |-> "unspawned", filePath |-> 0, result |-> NewResult(0),
     schema |-> NoSchema, transactions |-> <<>>, validationErrors |-> <<>>,
     children |-> <<>>, next |-> 1, archived |-> FALSE]

Units == 1..Len(inputFiles)

\* the goroutine reading the loop variable instead of its argument: every
\* goroutine sees the last file
WorkerFileCaptured(u) == inputFiles[Len(inputFiles)]

\* the file the goroutine of position u is given: go func(filePath){...}(file)
WorkerFile(u) == inputFiles[u]

\* one package-level counter used by every call
CounterShared(u) == 1

\* the globalLineItemIndex a call of buildDocument uses: its own local
CounterOf(u) == u

\* the policy without the ContinueOnError test
validationFailsAlways(validationErrors, continueOnError) ==
    Len(validationErrors) > 0

\* Run fails the unit when there are findings and ContinueOnError is off
validationFails(validationErrors, continueOnError) ==
    Len(validationErrors) > 0 /\ ~continueOnError

IdleVal == [pc |-> "idle", transactions |-> <<>>, schema |-> NoSchema,
            options |-> DefaultValidationOptions, visits |-> <<>>,
            result |-> <<>>]

DefaultMaxConcurrency == 4

\* applyMainConfigDefaults: an unset max_concurrency becomes 4
applyMainConfigDefaults(cfg) ==
    IF cfg.MaxConcurrency = 0
    THEN [cfg EXCEPT !.MaxConcurrency = DefaultMaxConcurrency]
    ELSE cfg

\* the main configuration and the configuration of the department
Config(maxConcurrency, continueOnError, groupByField, rules, templateMapping, template) ==
    applyMainConfigDefaults(
        [MaxConcurrency |-> maxConcurrency, ContinueOnError |-> continueOnError,
         UUIDFormat |-> [stem |-> <<"{uuid}">>, ext |-> ".xml"],
         DepartmentCode |-> "dept",
         GroupByField |-> groupByField, TransformationRules |-> rules,
         StaticFields |-> GenDeptConfig.StaticFields,
         TemplateMapping |-> templateMapping,
         Template |-> template])

\* nothing discovered: runProcess returns before launching anything
IdleOrch ==
    /\ config = Config(0, TRUE, "", <<>>, <<>>, <<>>)
    /\ files = <<>>
    /\ inputDir = {}
    /\ inputFiles = <<>>
    /\ worker = <<>>
    /\ counter = <<>>
    /\ results = <<>>
    /\ closed = FALSE
    /\ wg = 0
    /\ collected = <<>>
    /\ summary = FALSE
    /\ outputDir = <<>>
    /\ inputArchive = {}
    /\ outputArchive = <<>>

(***************************************************************************)
(* Converter.Run, one action per step of the pipeline                      *)
(***************************************************************************)
At(u, pc) == u \in Units /\ worker[u].pc = pc

\* return result: the goroutine goes on to send it
Return(u, w, result) ==
    worker' = [worker EXCEPT ![u] = [w EXCEPT !.pc = "send", !.result = result]]

Fail(u, wrap, cause) ==
    Return(u, worker[u], [worker[u].result EXCEPT !.Error = Errorf(wrap, cause)])

\* findMatchingDepartment: nil, or the department configuration; then
\* converter.New(filePath, deptConfig, mainConfig)
FindDepartment(u) ==
    /\ At(u, "start")
    /\ \E matched \in BOOLEAN :
         IF matched
         THEN worker' = [worker EXCEPT ![u].pc = "determineTemplate",
                                       ![u].result = NewResult(worker[u].filePath)]
         ELSE Return(u, worker[u],
                     [NewResult(worker[u].filePath) EXCEPT
                        !.Error = Errorf("", "no matching department configuration found")])
    /\ UNCHANGED <<gen, val, config, files, inputDir, inputFiles, counter,
                   results, closed, wg, collected, summary, outputDir,
                   inputArchive, outputArchive>>

\* step 1: determineTemplate (containsIgnoreCase is a placeholder that
\* returns true, so the first rule is the one used)
DetermineTemplate(u) ==
    /\ At(u, "determineTemplate")
    /\ IF config.TemplateMapping = <<>>
       THEN Fail(u, "failed to determine template", "no matching template found")
       ELSE \E exists \in BOOLEAN :
              IF exists
              THEN worker' = [worker EXCEPT ![u].pc = "parseTemplate"]
              ELSE Fail(u, "failed to determine template", "template file not found")
    /\ UNCHANGED <<gen, val, config, files, inputDir, inputFiles, counter,
                   results, closed, wg, collected, summary, outputDir,
                   inputArchive, outputArchive>>

\* step 2: xlsxparser.Parse
ParseTemplate(u) ==
    /\ At(u, "parseTemplate")
    /\ \E ok \in BOOLEAN :
         IF ok
         THEN worker' = [worker EXCEPT ![u].pc = "parseCSV",
                           ![u].schema = ParseWithConfig(config.Template)]
         ELSE Fail(u, "failed to parse template", "failed to open template file")
    /\ UNCHANGED <<gen, val, config, files, inputDir, inputFiles, counter,
                   results, closed, wg, collected, summary, outputDir,
                   inputArchive, outputArchive>>

\* steps 3 and 4: csvparser.Parse, then groupTransactions
ParseCSV(u) ==
    /\ At(u, "parseCSV")
    /\ \E ok \in BOOLEAN :
         IF ok /\ worker[u].filePath \in inputDir
         THEN LET rows == files[worker[u].filePath]
                  transactions == groupTransactions(rows, config.GroupByField)
              IN worker' = [worker EXCEPT
                    ![u].pc = "transform",
                    ![u].transactions = transactions,
                    ![u].result.Stats.RowsProcessed = Len(rows),
                    ![u].result.Stats.TransactionsCreated = Len(transactions)]
         ELSE Fail(u, "failed to parse CSV", "failed to open file")
    /\ UNCHANGED <<gen, val, config, files, inputDir, inputFiles, counter,
                   results, closed, wg, collected, summary, outputDir,
                   inputArchive, outputArchive>>

\* step 5: applyTransformations on every transaction
ApplyTransformations(u) ==
    /\ At(u, "transform")
    /\ LET r == transformAll(worker[u].transactions,
                             config.TransformationRules, 1)
       IN IF r.err # ""
          THEN Fail(u, "failed to apply transformations", r.err)
          ELSE worker' = [worker EXCEPT ![u].pc = "validate",
                                        ![u].transactions = r.transactions]
    /\ UNCHANGED <<gen, val, config, files, inputDir, inputFiles, counter,
                   results, closed, wg, collected, summary, outputDir,
                   inputArchive, outputArchive>>

\* step 6: validation.Validate and the ContinueOnError policy
ValidateData(u) ==
    /\ At(u, "validate")
    /\ \E visits \in Visits(worker[u].transactions) :
         LET validationErrors == Validate(worker[u].transactions,
                                          worker[u].schema, visits)
             w == [worker[u] EXCEPT
                     !.validationErrors = validationErrors,
                     !.result.Stats.ValidationErrors = Len(validationErrors)]
         IN IF validationFails(validationErrors, config.ContinueOnError)
            THEN Return(u, w, [w.result EXCEPT
                                  !.Error = Errorf("", "validation failed")])
            ELSE worker' = [worker EXCEPT ![u] = [w EXCEPT !.pc = "generate"]]
    /\ UNCHANGED <<gen, val, config, files, inputDir, inputFiles, counter,
                   results, closed, wg, collected, summary, outputDir,
                   inputArchive, outputArchive>>

\* step 7, buildDocument: the root's static fields, globalLineItemIndex := 1
BuildDocument(u) ==
    /\ At(u, "generate")
    /\ counter' = [counter EXCEPT ![CounterOf(u)] = 1]
    /\ worker' = [worker EXCEPT
                    ![u].pc = "build",
                    ![u].next = 1,
                    ![u].children = staticElements(config.StaticFields, "cashbook")]
    /\ UNCHANGED <<gen, val, config, files, inputDir, inputFiles,
                   results, closed, wg, collected, summary, outputDir,
                   inputArchive, outputArchive>>

\* step 7, one iteration of the loop of buildDocument over the transactions
BuildTransaction(u) ==
    /\ At(u, "build")
    /\ worker[u].next <= Len(worker[u].transactions)
    /\ LET r == buildTransactionElement(worker[u].transactions[worker[u].next],
                    worker[u].schema, config, DefaultGenerateOptions,
                    counter[CounterOf(u)])
       IN /\ counter' = [counter EXCEPT ![CounterOf(u)] = r.globalLineItemIndex]
          /\ worker' = [worker EXCEPT
                          ![u].next = @ + 1,
                          ![u].children = Append(@, r.element)]
    /\ UNCHANGED <<gen, val, config, files, inputDir, inputFiles,
                   results, closed, wg, collected, summary, outputDir,
                   inputArchive, outputArchive>>

\* the document buildDocument returns once its loop has ended
DocumentOf(u) ==
    [XMLName |-> worker[u].schema.XMLRootElement, Attributes |-> <<>>,
     Children |-> worker[u].children]

\* step 8: marshalWithIndent (it returns no error) and writeOutput
WriteOutput(u) ==
    /\ At(u, "build")
    /\ worker[u].next > Len(worker[u].transactions)
    /\ \E id \in UUIDs, ok \in BOOLEAN :
         LET fileName == generateOutputFileName(config.UUIDFormat, id,
                                                "timestamp", config.DepartmentCode)
         IN IF ok
            THEN /\ outputDir' =
                        [n \in DOMAIN outputDir \cup {fileName} |->
                            IF n = fileName
                            THEN [unit |-> worker[u].filePath, doc |-> DocumentOf(u)]
                            ELSE outputDir[n]]
                 /\ worker' = [worker EXCEPT ![u].pc = "archive",
                                             ![u].result.OutputFile = fileName]
            ELSE /\ Fail(u, "failed to write output", "failed to write file")
                 /\ UNCHANGED outputDir
    /\ UNCHANGED <<gen, val, config, files, inputDir, inputFiles, counter,
                   results, closed, wg, collected, summary,
                   inputArchive, outputArchive>>

\* step 9 with the error of archiveFiles returned instead of logged
ArchiveFilesFatal(u) ==
    /\ At(u, "archive")
    /\ LET w == worker[u]
           done == [w.result EXCEPT !.Success = TRUE]
       IN \E renamed \in BOOLEAN :
            IF ~renamed \/ w.filePath \notin inputDir
            THEN /\ Fail(u, "failed to archive files", "failed to archive input file")
                 /\ UNCHANGED <<inputDir, inputArchive>>
            ELSE /\ inputDir' = inputDir \ {w.filePath}
                 /\ inputArchive' = inputArchive \cup {w.filePath}
                 /\ Return(u, [w EXCEPT !.archived = TRUE], done)
    /\ UNCHANGED <<gen, val, config, files, inputFiles, counter,
                   results, closed, wg, collected, summary, outputDir,
                   outputArchive>>

\* step 9: archiveFiles (its error is only logged), then Success = true
ArchiveFiles(u) ==
    /\ At(u, "archive")
    /\ LET w == worker[u]
           done == [w.result EXCEPT !.Success = TRUE]
           outputPath == w.result.OutputFile
       IN \E renamed \in BOOLEAN, copied \in BOOLEAN :
            IF ~renamed \/ w.filePath \notin inputDir
            THEN /\ Return(u, w, done)
                 /\ UNCHANGED <<inputDir, inputArchive, outputArchive>>
            ELSE /\ inputDir' = inputDir \ {w.filePath}
                 /\ inputArchive' = inputArchive \cup {w.filePath}
                 /\ Return(u, [w EXCEPT !.archived = TRUE], done)
                 /\ IF copied /\ outputPath \in DOMAIN outputDir
                    THEN outputArchive' =
                           [n \in DOMAIN outputArchive \cup {outputPath} |->
                               IF n = outputPath THEN outputDir[outputPath]
                               ELSE outputArchive[n]]
                    ELSE UNCHANGED outputArchive
    /\ UNCHANGED <<gen, val, config, files, inputFiles, counter,
                   results, closed, wg, collected, summary, outputDir>>

(***************************************************************************)
(* runProcess: fan out, result channel, collection and summary             *)
(***************************************************************************)
\* the loop over inputFiles: wg.Add(1); go func(filePath string){...}(file)
Spawn(u) ==
    /\ At(u, "unspawned")
    /\ \A v \in 1..(u - 1) : worker[v].pc # "unspawned"
    /\ wg' = wg + 1
    /\ worker' = [worker EXCEPT ![u].pc = "start", ![u].filePath = WorkerFile(u)]
    /\ UNCHANGED <<gen, val, config, files, inputDir, inputFiles, counter,
                   results, closed, collected, summary, outputDir,
                   inputArchive, outputArchive>>

AllSpawned == \A u \in Units : worker[u].pc # "unspawned"

\* results <- result, on the channel of capacity len(inputFiles)
Send(u) ==
    /\ At(u, "send")
    /\ Len(results) < Len(inputFiles)
    /\ ~closed
    /\ results' = Append(results, worker[u].result)
    /\ worker' = [worker EXCEPT ![u].pc = "sent"]
    /\ UNCHANGED <<gen, val, config, files, inputDir, inputFiles, counter,
                   closed, wg, collected, summary, outputDir,
                   inputArchive, outputArchive>>

\* defer wg.Done()
WgDone(u) ==
    /\ At(u, "sent")
    /\ wg' = wg - 1
    /\ worker' = [worker EXCEPT ![u].pc = "done"]
    /\ UNCHANGED <<gen, val, config, files, inputDir, inputFiles, counter,
                   results, closed, collected, summary, outputDir,
                   inputArchive, outputArchive>>

\* the closer goroutine closing the channel without wg.Wait()
CloseResultsNoWait ==
    /\ inputFiles # <<>>
    /\ AllSpawned
    /\ ~closed
    /\ closed' = TRUE
    /\ UNCHANGED <<gen, val, config, files, inputDir, inputFiles, worker,
                   counter, results, wg, collected, summary, outputDir,
                   inputArchive, outputArchive>>

\* go func() { wg.Wait(); close(results) }()
CloseResults ==
    /\ inputFiles # <<>>
    /\ AllSpawned
    /\ wg = 0
    /\ ~closed
    /\ closed' = TRUE
    /\ UNCHANGED <<gen, val, config, files, inputDir, inputFiles, worker,
                   counter, results, wg, collected, summary, outputDir,
                   inputArchive, outputArchive>>

\* for result := range results
Collect ==
    /\ AllSpawned
    /\ results # <<>>
    /\ collected' = Append(collected, Head(results))
    /\ results' = Tail(results)
    /\ UNCHANGED <<gen, val, config, files, inputDir, inputFiles, worker,
                   counter, closed, wg, summary, outputDir,
                   inputArchive, outputArchive>>

\* the range loop ends on the closed, drained channel; the summary follows
PrintSummary ==
    /\ inputFiles # <<>>
    /\ AllSpawned
    /\ closed
    /\ results = <<>>
    /\ ~summary
    /\ summary' = TRUE
    /\ UNCHANGED <<gen, val, config, files, inputDir, inputFiles, worker,
                   counter, results, closed, wg, collected, outputDir,
                   inputArchive, outputArchive>>

Next ==
    \/ \E u \in Units : Spawn(u)
    \/ \E u \in Units : FindDepartment(u)
    \/ \E u \in Units : DetermineTemplate(u)
    \/ \E u \in Units : ParseTemplate(u)
    \/ \E u \in Units : ParseCSV(u)
    \/ \E u \in Units : ApplyTransformations(u)
    \/ \E u \in Units : ValidateData(u)
    \/ \E u \in Units : BuildDocument(u)
    \/ \E u \in Units : BuildTransaction(u)
    \/ \E u \in Units : WriteOutput(u)
    \/ \E u \in Units : ArchiveFiles(u)
    \/ \E u \in Units : Send(u)
    \/ \E u \in Units : WgDone(u)
    \/ CloseResults
    \/ Collect
    \/ PrintSummary

(***************************************************************************)
(* Initial states                                                          *)
(***************************************************************************)
Rec(key, amount) == [CheckNumber |-> key, Amount |-> amount]

TemplateRule == [IfFilenameContains |-> "payments", UseTemplate |-> "t.xlsx"]

\* several units: the files alternate between two contents, the second with
\* a value that is not numeric
OrchContent(i) ==
    IF i % 2 = 1
    THEN <<Rec(<<"7">>, <<"1">>), Rec(<<"8">>, <<"1">>), Rec(<<"7">>, <<"2">>)>>
    ELSE <<Rec(<<"7">>, <<"x">>), Rec(<<"7">>, <<"1">>)>>

OrchFiles(n) == {[i \in 1..n |-> OrchContent(i)]}

OrchConfigs ==
    {Config(m, TRUE, "CheckNumber", <<>>, <<TemplateRule>>, GenTemplate) :
        m \in {0, 1}}

OrchInit(n, contents, configs) ==
    /\ config \in configs
    /\ inputFiles = [i \in 1..n |-> i]
    /\ files \in contents
    /\ inputDir = 1..n
    /\ worker = [i \in 1..n |-> NoWorker]
    /\ counter = [i \in 1..n |-> 0]
    /\ results = <<>>
    /\ closed = FALSE
    /\ wg = 0
    /\ collected = <<>>
    /\ summary = FALSE
    /\ outputDir = <<>>
    /\ inputArchive = {}
    /\ outputArchive = <<>>

Init ==
    /\ gen = IdleGen
    /\ val = IdleVal
    /\ \E n \in 1..NumUnits : OrchInit(n, OrchFiles(n), OrchConfigs)

Spec == Init /\ [][Next]_vars

\* one unit, with every small file content and configuration
RunRecords == [CheckNumber : {<<"7">>, <<"8">>}, Amount : {EmptyStr, <<"1">>, <<"x">>}]
RunContents == SeqsUpTo(RunRecords, MaxRunRows)

RunRules ==
    {<<>>,
     <<[Field |-> "Amount", Actions |-> <<Action("prepend_string", <<"9">>)>>]>>,
     <<[Field |-> "Amount", Actions |-> <<Action("prepend_string", <<"9">>),
                                          Action("regex_replace", <<"9">>)>>]>>,
     <<[Field |-> "BatchID", Actions |-> <<Action("regex_replace", <<"9">>)>>]>>}

RunTemplates ==
    {<<TemplateRow("CheckNumber", "CheckNumber", "transaction", "numeric", 0, "required"),
       TemplateRow("Amount", "Amount", "lineitem", "numeric", 2, r)>> :
        r \in {"required", "optional"}}

RunConfigs ==
    {Config(0, c, g, rules, tm, t) :
        c \in BOOLEAN, g \in {"", "CheckNumber"}, rules \in RunRules,
        tm \in {<<>>, <<TemplateRule>>}, t \in RunTemplates}

RunInit ==
    /\ gen = IdleGen
    /\ val = IdleVal
    /\ OrchInit(1, [{1} -> RunContents], RunConfigs)

RunSpec == RunInit /\ [][Next]_vars

(***************************************************************************)
(* Direct calls of the grouper and of the document assembler               *)
(***************************************************************************)
GenInit ==
    /\ gen \in [pc : {"input"},
                rows : SeqsUpTo(GenRecords, MaxRows),
                groupByField : GenGroupByFields,
                options : {[DefaultGenerateOptions EXCEPT
                              !.LineItemNumberingGlobal = b] : b \in BOOLEAN},
                transactions : {<<>>},
                doc : {NoDoc}]
    /\ val = IdleVal
    /\ IdleOrch

GenGroup ==
    /\ gen.pc = "input"
    /\ gen' = [gen EXCEPT !.pc = "grouped",
                          !.transactions = groupTransactions(gen.rows,
                                                             gen.groupByField)]
    /\ UNCHANGED <<val, orchVars>>

GenGenerate ==
    /\ gen.pc = "grouped"
    /\ gen' = [gen EXCEPT !.pc = "generated",
                          !.doc = GenerateWithOptions(gen.transactions,
                                      ParseWithConfig(GenTemplate),
                                      GenDeptConfig, gen.options)]
    /\ UNCHANGED <<val, orchVars>>

GenNext == GenGroup \/ GenGenerate

GenSpec == GenInit /\ [][GenNext]_vars

(***************************************************************************)
(* Properties of the grouper and of the document assembler (GenSpec)       *)
(***************************************************************************)
RECURSIVE totalLineItems(_)
totalLineItems(transactions) ==
    IF transactions = <<>> THEN 0
    ELSE Len(Head(transactions).LineItems) + totalLineItems(Tail(transactions))

GenLineItemElements == allLineItemElements(transactionElements(gen.doc))

GenKeyOf(row) == Get(row, gen.groupByField)

FirstIndexOfKey(key) ==
    CHOOSE i \in 1..Len(gen.rows) :
        /\ GenKeyOf(gen.rows[i]) = key
        /\ \A j \in 1..(i - 1) : GenKeyOf(gen.rows[j]) # key

\* C1: with global numbering, the N line-item elements of the document carry
\* the index attributes 1, 2, ..., N in document order, across the
\* transaction boundaries
C1_GlobalIndicesAre1toN ==
    (gen.pc = "generated" /\ gen.options.LineItemNumberingGlobal) =>
        /\ Len(GenLineItemElements) = totalLineItems(gen.transactions)
        /\ \A k \in 1..Len(GenLineItemElements) :
             /\ GenLineItemElements[k].Attributes[1].Name
                    = gen.options.LineItemIndexAttribute
             /\ indexOf(GenLineItemElements[k]) = k

\* three line items spread unevenly over two transactions, numbered globally
C1_Witness ==
    /\ gen.pc = "generated"
    /\ gen.options.LineItemNumberingGlobal
    /\ Len(gen.transactions) = 2
    /\ Len(gen.transactions[1].LineItems) = 1
    /\ Len(gen.transactions[2].LineItems) = 2
    /\ indexOf(GenLineItemElements[3]) = 3

\* C2: with global numbering disabled, the k-th line item of every
\* transaction is emitted with index k
C2_PerTransactionIndicesRestart ==
    (gen.pc = "generated" /\ ~gen.options.LineItemNumberingGlobal) =>
        \A i \in 1..Len(transactionElements(gen.doc)) :
            LET items == lineItemElements(transactionElements(gen.doc)[i])
            IN \A k \in 1..Len(items) : indexOf(items[k]) = k

\* C6: with a non-empty groupByField there is exactly one transaction per
\* distinct key (a missing field is the empty key), and the line items of a
\* transaction are the records of its key, each once, in input order
C6_OneTransactionPerKeyInOrder ==
    (gen.pc \in {"grouped", "generated"} /\ gen.groupByField # "") =>
        /\ Len(gen.transactions)
             = Cardinality({GenKeyOf(gen.rows[i]) : i \in 1..Len(gen.rows)})
        /\ \A i, j \in 1..Len(gen.transactions) :
             i # j => gen.transactions[i].GroupKey # gen.transactions[j].GroupKey
        /\ \A i \in 1..Len(gen.transactions) :
             LET t == gen.transactions[i]
                 own == SelectSeq(gen.rows, LAMBDA r : GenKeyOf(r) = t.GroupKey)
             IN /\ Len(t.LineItems) = Len(own)
                /\ \A k \in 1..Len(own) : t.LineItems[k].Fields = own[k]
        /\ totalLineItems(gen.transactions) = Len(gen.rows)

\* keys 7, 8, 7: two transactions, the first with the first and third record
C6_Witness ==
    /\ gen.pc = "grouped"
    /\ gen.groupByField = "CheckNumber"
    /\ Len(gen.rows) = 3
    /\ gen.rows[1].CheckNumber = gen.rows[3].CheckNumber
    /\ gen.rows[1].CheckNumber # gen.rows[2].CheckNumber
    /\ gen.rows[1].Amount # gen.rows[3].Amount
    /\ Len(gen.transactions) = 2
    /\ Len(gen.transactions[1].LineItems) = 2

\* C7: transactions are in order of first appearance of their key (one per
\* record when groupByField is empty), the i-th has ID i, and that ID is the
\* index attribute of the i-th transaction element in both numbering modes
C7_TransactionsNumberedByPosition ==
    (gen.pc = "generated") =>
        /\ \A i \in 1..Len(gen.transactions) : gen.transactions[i].ID = i
        /\ Len(transactionElements(gen.doc)) = Len(gen.transactions)
        /\ \A i \in 1..Len(gen.transactions) :
             /\ transactionElements(gen.doc)[i].Attributes[1].Name
                    = gen.options.TransactionIndexAttribute
             /\ indexOf(transactionElements(gen.doc)[i]) = i
        /\ (gen.groupByField = "") =>
             /\ Len(gen.transactions) = Len(gen.rows)
             /\ \A i \in 1..Len(gen.rows) :
                  /\ Len(gen.transactions[i].LineItems) = 1
                  /\ gen.transactions[i].LineItems[1].Fields = gen.rows[i]
        /\ (gen.groupByField # "") =>
             \A i, j \in 1..Len(gen.transactions) :
                 i < j => FirstIndexOfKey(gen.transactions[i].GroupKey)
                            < FirstIndexOfKey(gen.transactions[j].GroupKey)

\* keys 8, 8, 7 with per-transaction numbering: key 8 is transaction 1 (two
\* line items), key 7 is transaction 2
C7_Witness ==
    /\ gen.pc = "generated"
    /\ ~gen.options.LineItemNumberingGlobal
    /\ gen.groupByField = "CheckNumber"
    /\ Len(gen.rows) = 3
    /\ gen.rows[1].CheckNumber = <<"8">>
    /\ gen.rows[2].CheckNumber = <<"8">>
    /\ gen.rows[3].CheckNumber = <<"7">>
    /\ Len(gen.transactions) = 2
    /\ indexOf(transactionElements(gen.doc)[2]) = 2

(***************************************************************************)
(* Direct calls of Validator.ValidateAll                                   *)
(***************************************************************************)
ValRecords == [CheckNumber : {EmptyStr, <<"7">>},
               Amount : {EmptyStr, <<"1">>, <<"x">>, <<"x", "x">>}]

ValTemplates ==
    {<<TemplateRow("CheckNumber", "CheckNumber", "transaction", "numeric", 0, "required"),
       TemplateRow("Amount", "Amount", "lineitem", "numeric", m, r)>> :
        m \in {0, 1}, r \in {"required", "optional"}}

ValInit ==
    /\ gen = IdleGen
    /\ \E rows \in SeqsUpTo(ValRecords, MaxValRows), g \in {"", "CheckNumber"},
          t \in ValTemplates, stop \in BOOLEAN :
         val = [pc |-> "input",
                transactions |-> groupTransactions(rows, g),
                schema |-> ParseWithConfig(t),
                options |-> [DefaultValidationOptions EXCEPT
                               !.StopOnFirstError = stop],
                visits |-> <<>>,
                result |-> <<>>]
    /\ IdleOrch

\* NewValidatorWithOptions(schema, options).ValidateAll(transactions)
ValValidateAll ==
    /\ val.pc = "input"
    /\ \E visits \in Visits(val.transactions) :
         val' = [val EXCEPT
                   !.pc = "returned",
                   !.visits = visits,
                   !.result = ValidateAll(val.transactions, val.schema,
                                          val.options, visits)]
    /\ UNCHANGED <<gen, orchVars>>

ValNext == ValValidateAll

ValSpec == ValInit /\ [][ValNext]_vars

\* the positions (transaction, line item, field) the validator has to check
ValPositions ==
    UNION {UNION {{<<i, j, f>> :
                     f \in {h \in DOMAIN val.transactions[i].LineItems[j].Fields :
                              GetFieldMapping(val.schema, h) # NoMapping}} :
                  j \in 1..Len(val.transactions[i].LineItems)} :
           i \in 1..Len(val.transactions)}

ValFindingsAt(p) ==
    LET t == val.transactions[p[1]]
        li == t.LineItems[p[2]]
    IN ValidateField(li.Fields[p[3]], GetFieldMapping(val.schema, p[3]), t, li)

RECURSIVE SumOver(_, _)
SumOver(S, f) ==
    IF S = {} THEN 0
    ELSE LET x == CHOOSE y \in S : TRUE
         IN Len(f[x]) + SumOver(S \ {x}, f)

ValTotalFindings == SumOver(ValPositions, [p \in ValPositions |-> ValFindingsAt(p)])

ValErrorIndexes ==
    {k \in 1..Len(val.result.Errors) : val.result.Errors[k].Severity = "error"}

\* C10: without StopOnFirstError the result holds the findings of every
\* schema-mapped field of every line item of every transaction; with it, the
\* result ends at the first error-severity finding: exactly one, the last
C10_CollectedInFullUnlessStop ==
    (val.pc = "returned") =>
        IF ~val.options.StopOnFirstError
        THEN /\ Len(val.result.Errors) = ValTotalFindings
             /\ \A p \in ValPositions :
                  \A n \in 1..Len(ValFindingsAt(p)) :
                     \E k \in 1..Len(val.result.Errors) :
                        val.result.Errors[k] = ValFindingsAt(p)[n]
             /\ val.result.ErrorCount = Cardinality(ValErrorIndexes)
        ELSE IF ValTotalFindings = 0
             THEN val.result.Errors = <<>>
             ELSE /\ Cardinality(ValErrorIndexes) = 1
                  /\ val.result.Errors[Len(val.result.Errors)].Severity = "error"

\* findings in two transactions and in two fields of one line item, all kept
C10_Witness ==
    /\ val.pc = "returned"
    /\ ~val.options.StopOnFirstError
    /\ Len(val.transactions) = 2
    /\ \E a, b \in 1..Len(val.result.Errors) :
         /\ val.result.Errors[a].TransactionID = 1
         /\ val.result.Errors[b].TransactionID = 2
    /\ \E a, b \in 1..Len(val.result.Errors) :
         /\ val.result.Errors[a].Field = "CheckNumber"
         /\ val.result.Errors[b].Field = "Amount"
         /\ val.result.Errors[a].LineItemID = val.result.Errors[b].LineItemID
    /\ Len(val.result.Errors) >= 3

(***************************************************************************)
(* Properties of runProcess (Spec)                                         *)
(***************************************************************************)
Delivered == collected \o results

Occurrences(seq, filePath) ==
    Cardinality({k \in 1..Len(seq) : seq[k].FilePath = filePath})

Processing(u) ==
    worker[u].pc \notin {"unspawned", "done"}

\* C3: no unit is lost or reported twice whatever the completion order, and
\* the summary comes only after every worker has delivered its result and is
\* done: then every input unit is in the collected results exactly once
C3_EachUnitExactlyOnce ==
    /\ \A u \in Units :
         Occurrences(Delivered, inputFiles[u])
            = IF worker[u].pc \in {"sent", "done"} THEN 1 ELSE 0
    /\ Len(Delivered) <= Len(inputFiles)
    /\ summary =>
         /\ \A u \in Units : worker[u].pc = "done"
         /\ results = <<>>
         /\ Len(collected) = Len(inputFiles)
         /\ \A u \in Units : Occurrences(collected, inputFiles[u]) = 1

\* one worker is still inside its pipeline, the results of all the others
\* have been collected (in the reverse of the launch order), no summary
C3_Witness ==
    /\ Len(inputFiles) = NumUnits
    /\ NumUnits >= 2
    /\ worker[1].pc = "validate"
    /\ \A u \in Units \ {1} : worker[u].pc = "done"
    /\ Len(collected) = Len(inputFiles) - 1
    /\ collected[1].FilePath = inputFiles[Len(inputFiles)]
    /\ ~summary

\* what a unit processed alone produces from its file
AloneTransactions(u) ==
    transformAll(groupTransactions(files[inputFiles[u]], config.GroupByField),
                 config.TransformationRules, 1).transactions

AloneChildren(u) ==
    Generate(AloneTransactions(u), ParseWithConfig(config.Template), config).Children

\* C4: under every interleaving the transaction ids and the line-item indices
\* of a unit are those the unit gets when it is processed alone
C4_NumberingIndependentOfOtherUnits ==
    \A u \in Units :
        /\ worker[u].pc \in {"validate", "generate", "build", "archive"}
             => worker[u].transactions = AloneTransactions(u)
        /\ worker[u].pc \in {"build", "archive"}
             => worker[u].children
                  = SubSeq(AloneChildren(u), 1, Len(worker[u].children))
        /\ worker[u].pc = "archive"
             => worker[u].children = AloneChildren(u)

\* two units are both in the middle of the transaction loop of buildDocument
C4_Witness ==
    /\ Len(inputFiles) >= 2
    /\ worker[1].pc = "build" /\ worker[1].next = 2
    /\ worker[2].pc = "build" /\ worker[2].next = 2
    /\ counter[1] = 3
    /\ counter[2] = 3

\* C5: at most MaxConcurrency units are being processed at any moment
C5_AtMostMaxConcurrency ==
    Cardinality({u \in Units : Processing(u)}) <= config.MaxConcurrency

(***************************************************************************)
(* Properties of Converter.Run (RunSpec)                                   *)
(***************************************************************************)
FatalWraps ==
    {"failed to determine template", "failed to parse template",
     "failed to parse CSV", "failed to apply transformations",
     "failed to generate XML", "failed to write output"}

applyActionKinds ==
    {"prepend_string", "append_string", "pad_zeros_to_length", "ensure_length",
     "uppercase", "lowercase", "trim", "replace", "lookup", "conditional"}

\* a rule of the ruleset reaches an action of an unknown kind on a line item
UnknownKindReached(transactions) ==
    \E i \in 1..Len(transactions) :
      \E j \in 1..Len(transactions[i].LineItems) :
        \E r \in 1..Len(config.TransformationRules) :
          LET rule == config.TransformationRules[r]
          IN /\ rule.Field \in DOMAIN transactions[i].LineItems[j].Fields
             /\ \E a \in 1..Len(rule.Actions) :
                  rule.Actions[a].Type \notin applyActionKinds

\* the steps that come after the step of a fatal error have left no trace
NoLaterStep(w) ==
    LET wrap == w.result.Error.wrap
    IN /\ wrap \in {"failed to determine template", "failed to parse template"}
            => w.schema = NoSchema
       /\ wrap \in {"failed to determine template", "failed to parse template",
                    "failed to parse CSV"}
            => w.transactions = <<>> /\ w.result.Stats = NoStats
       /\ wrap # "failed to write output"
            => /\ w.validationErrors = <<>>
               /\ w.result.Stats.ValidationErrors = 0
               /\ w.children = <<>>
       /\ w.result.OutputFile = NoFile
       /\ outputDir = <<>>

\* C8: a fatal error aborts the unit at its step: the result is a failure
\* wrapping the cause, no later step has run and the input file is not
\* archived; an unknown action kind that is reached is such an error
C8_FatalErrorAbortsUnit ==
    \A u \in Units :
        LET w == worker[u]
        IN /\ w.result.Error.wrap \in FatalWraps =>
                /\ w.pc \in {"send", "sent", "done"}
                /\ ~w.result.Success
                /\ w.result.Error.cause # "nil"
                /\ NoLaterStep(w)
                /\ ~w.archived
                /\ w.filePath \in inputDir
                /\ w.filePath \notin inputArchive
                /\ outputArchive = <<>>
           /\ (w.pc \in {"validate", "generate", "build", "archive"}
               \/ w.result.Success)
                => ~UnknownKindReached(w.transactions)
\* a unit whose second action is of an unknown kind has failed at the
\* transformation step and its input file is still in the input directory
C8_Witness ==
    /\ Len(inputFiles) = 1
    /\ worker[1].pc = "done"
    /\ worker[1].result.Error
         = Errorf("failed to apply transformations", "unknown transformation type")
    /\ Len(worker[1].transactions) = 2
    /\ collected = <<worker[1].result>>
    /\ inputDir = {1}

PastValidation(w) ==
    \/ w.pc \in {"generate", "build", "archive"}
    \/ w.result.Success
    \/ w.result.Error.wrap = "failed to write output"

ValidationFailure(w) == w.result.Error = Errorf("", "validation failed")

\* C9: the result is a validation failure exactly when validation produced a
\* finding of severity error and ContinueOnError is off; with ContinueOnError
\* on the unit goes on to the XML generation and a successful result counts
\* the findings; no finding of another severity exists that could fail a unit
C9_ValidationFailureIffErrorsAndNoContinue ==
    \A u \in Units :
        LET w == worker[u]
            errors == {k \in 1..Len(w.validationErrors) :
                         w.validationErrors[k].Severity = "error"}
            validated == PastValidation(w) \/ ValidationFailure(w)
        IN /\ ValidationFailure(w) => w.pc \in {"send", "sent", "done"}
           /\ validated =>
                /\ \E visits \in Visits(w.transactions) :
                     w.validationErrors = Validate(w.transactions, w.schema, visits)
                /\ w.result.Stats.ValidationErrors = Len(w.validationErrors)
                /\ ValidationFailure(w) <=> (errors # {} /\ ~config.ContinueOnError)
                /\ PastValidation(w) <=> (errors = {} \/ config.ContinueOnError)
                /\ errors = {} => w.validationErrors = <<>>
           /\ ~validated => w.validationErrors = <<>>
           /\ ValidationFailure(w) => ~w.result.Success /\ w.children = <<>>

\* with ContinueOnError a unit with findings has succeeded
C9_Witness ==
    /\ Len(inputFiles) = 1
    /\ config.ContinueOnError
    /\ worker[1].pc = "done"
    /\ worker[1].result.Success
    /\ worker[1].result.Stats.ValidationErrors = 2
    /\ worker[1].result.OutputFile # NoFile

(***************************************************************************)
(* Direct calls of Validator.ValidateField                                 *)
(***************************************************************************)
FieldValues == SeqsUpTo({"7", "x"}, MaxValueLen)

FieldRules ==
    {NoRule,
     <<"i", "f", " ", "B", " ", "i", "s", "_", "e", "m", "p", "t", "y">>,
     <<"B", " ", "=", "=", " ", "'", "x", "'">>}

FieldMappings ==
    {[TemplateRow("A", "A", "lineitem", t, m, r) EXCEPT !.ConditionalRule = c] :
        t \in {"string", "numeric", "alpha", "alphanumeric", "boolean"},
        m \in 0..(MaxValueLen - 1),
        r \in {"required", "optional", "conditional"},
        c \in FieldRules}

FieldInit ==
    /\ gen = IdleGen
    /\ \E value \in FieldValues, mapping \in FieldMappings,
          b \in {EmptyStr, <<"x">>} :
         val = [pc |-> "field", value |-> value, mapping |-> mapping,
                transaction |-> [ID |-> 1],
                lineItem |-> [ID |-> 1, Fields |-> [A |-> value, B |-> b]],
                errors |-> <<>>]
    /\ IdleOrch

\* v.ValidateField(value, mapping, transaction, lineItem)
FieldValidate ==
    /\ val.pc = "field"
    /\ val' = [val EXCEPT
                 !.pc = "fieldReturned",
                 !.errors = ValidateField(val.value, val.mapping,
                                          val.transaction, val.lineItem)]
    /\ UNCHANGED <<gen, orchVars>>

FieldNext == FieldValidate

FieldSpec == FieldInit /\ [][FieldNext]_vars

RulesOf(errors) == [k \in 1..Len(errors) |-> errors[k].Rule]

\* C11: an empty value of a required field gives exactly one finding, of rule
\* required and severity error, whatever the maximum length and data type
C11_RequiredEmptyGivesOneFinding ==
    (val.pc = "fieldReturned" /\ val.mapping.RequiredType = "required"
       /\ val.value = EmptyStr) =>
        /\ Len(val.errors) = 1
        /\ val.errors[1].Rule = "required"
        /\ val.errors[1].Severity = "error"
        /\ val.errors[1].Field = val.mapping.OldHeader
        /\ \A k \in 1..Len(val.errors) :
             val.errors[k].Rule \notin {"max_length", "data_type"}

\* an empty required boolean field, whose data type check would fail too
C11_Witness ==
    /\ val.pc = "fieldReturned"
    /\ val.mapping.RequiredType = "required"
    /\ val.mapping.DataType = "boolean"
    /\ val.value = EmptyStr
    /\ RulesOf(val.errors) = <<"required">>

C13_AtMostOneFinding ==
    val.pc = "fieldReturned" => Len(val.errors) <= 1

\* C13 amended: the two emptiness checks return; on a value that is not
\* empty the maximum length and the data type are both checked, the
\* max_length finding coming before the data_type finding
C13_LengthAndTypeBothChecked ==
    (val.pc = "fieldReturned" /\ val.value # EmptyStr) =>
        LET tooLong == val.mapping.MaxLength > 0
                       /\ Len(val.value) > val.mapping.MaxLength
            badType == validateDataType(val.value, val.mapping.DataType) # ""
        IN RulesOf(val.errors)
             = (IF tooLong THEN <<"max_length">> ELSE <<>>)
               \o (IF badType THEN <<"data_type">> ELSE <<>>)

\* a value that exceeds the maximum length and is not numeric
C13_Witness ==
    /\ val.pc = "fieldReturned"
    /\ val.value = <<"x", "x">>
    /\ val.mapping.MaxLength = 1
    /\ val.mapping.DataType = "numeric"
    /\ RulesOf(val.errors) = <<"max_length", "data_type">>

(***************************************************************************)
(* Direct calls of the transformation engine                               *)
(***************************************************************************)
ExtractDigits == Action("extract_digits", EmptyStr)
PadZeros9 == Action("pad_zeros_to_length", <<"9">>)
PrependC == Action("prepend_string", <<"C">>)
PrependA == Action("prepend_string", <<"A">>)
Reverse == Action("reverse", EmptyStr)

XformActions == {ExtractDigits, PadZeros9, PrependC, PrependA, Reverse}

XformValues ==
    {EmptyStr, <<"7">>, <<"A", "1", "2", "3">>,
     <<"4", "5", "6", "7", "8", "9">>, <<"1", "2", "3", "4", "5", "6">>}

XformInit ==
    /\ \E a \in XformValues, chainA \in SeqsUpTo(XformActions, MaxActions),
          chainB \in {<<>>, <<PrependC>>, <<Reverse>>, <<PrependC, Reverse>>} :
         gen = [pc |-> "xform",
                fields |-> [A |-> a, B |-> <<"7">>],
                rules |-> <<[Field |-> "A", Actions |-> chainA],
                            [Field |-> "B", Actions |-> chainB]>>,
                order |-> <<>>,
                out |-> <<>>]
    /\ val = IdleVal
    /\ IdleOrch

\* NewTransformer(rules).Transform("A", fields["A"], fields)
XformTransform ==
    /\ gen.pc = "xform"
    /\ gen' = [gen EXCEPT
                 !.pc = "transformed",
                 !.out = Transform(gen.rules, "A", gen.fields.A, gen.fields)]
    /\ UNCHANGED <<val, orchVars>>

\* NewTransformer(rules).TransformLineItem(&lineItem)
XformLineItem ==
    /\ gen.pc = "xform"
    /\ \E order \in Perms(DOMAIN gen.fields) :
         gen' = [gen EXCEPT
                   !.pc = "lineItem",
                   !.order = order,
                   !.out = TransformLineItem(gen.rules,
                              [ID |-> 1, Fields |-> gen.fields], order)]
    /\ UNCHANGED <<val, orchVars>>

\* c.applyTransformations(&transaction) on a transaction of one line item
XformApply ==
    /\ gen.pc = "xform"
    /\ gen' = [gen EXCEPT
                 !.pc = "applied",
                 !.out = applyTransformations(
                            [ID |-> 1, GroupKey |-> EmptyStr,
                             LineItems |-> <<[ID |-> 1, Fields |-> gen.fields]>>],
                            gen.rules)]
    /\ UNCHANGED <<val, orchVars>>

XformNext == XformTransform \/ XformLineItem \/ XformApply

XformSpec == XformInit /\ [][XformNext]_vars

XformChain == gen.rules[1].Actions

\* the values after each action of the chain, computed one after the other
XformSteps ==
    LET acc[k \in 0..Len(XformChain)] ==
            IF k = 0 THEN gen.fields.A
            ELSE ApplyTransformation(acc[k - 1], XformChain[k], gen.fields).value
    IN acc

XformChainKnown == \A k \in 1..Len(XformChain) : XformChain[k].Type \in TransformationKinds

\* C14: the actions of a rule are applied from left to right, each on the
\* result of the one before, so the order of the actions matters
C14_ActionsAppliedLeftToRight ==
    gen.pc = "transformed" =>
        /\ XformChainKnown =>
             gen.out = Ok(XformSteps[Len(XformChain)])
        /\ (gen.fields.A = <<"A", "1", "2", "3">>
            /\ XformChain = <<ExtractDigits, PadZeros9>>)
             => gen.out.value = <<"0", "0", "0", "0", "0", "0", "1", "2", "3">>
        /\ (gen.fields.A = <<"A", "1", "2", "3">>
            /\ XformChain = <<PadZeros9, ExtractDigits>>)
             => gen.out.value # <<"0", "0", "0", "0", "0", "0", "1", "2", "3">>
        /\ (gen.fields.A = <<"4", "5", "6", "7", "8", "9">>
            /\ XformChain = <<PadZeros9, PrependC>>)
             => gen.out.value
                  = <<"C", "0", "0", "0", "4", "5", "6", "7", "8", "9">>
        /\ (gen.fields.A = <<"1", "2", "3", "4", "5", "6">>
            /\ XformChain = <<ExtractDigits, PadZeros9, PrependA>>)
             => gen.out.value
                  = <<"A", "0", "0", "0", "1", "2", "3", "4", "5", "6">>

\* extract_digits then pad_zeros_to_length(9) on "A123"
C14_Witness ==
    /\ gen.pc = "transformed"
    /\ gen.fields.A = <<"A", "1", "2", "3">>
    /\ XformChain = <<ExtractDigits, PadZeros9>>
    /\ gen.out = Ok(<<"0", "0", "0", "0", "0", "0", "1", "2", "3">>)
XformChainOf(f) == gen.rules[ruleOf(gen.rules, f)].Actions

\* the chain of the field reaches an action the engine does not know
XformFails(f, kinds) ==
    \E k \in 1..Len(XformChainOf(f)) : XformChainOf(f)[k].Type \notin kinds

\* the fields of the line item in the order they were taken, up to and after
\* the first one whose chain fails
XformOutcome(order, kinds, fields, transformed(_)) ==
    LET failing == {k \in 1..Len(order) : XformFails(order[k], kinds)}
        first == IF failing = {} THEN Len(order) + 1 ELSE Min(failing)
    IN /\ \A k \in 1..Len(order) :
            fields[order[k]] = IF k < first THEN transformed(order[k])
                               ELSE gen.fields[order[k]]
       /\ DOMAIN fields = DOMAIN gen.fields

\* C15: an action of an unknown kind ends the chain with the unknown-kind
\* error; the failing field keeps its stored value, the fields transformed
\* before it keep their transformed values, the others are untouched
C15_UnknownKindAbortsChain ==
    /\ gen.pc = "lineItem" =>
         /\ gen.out.err # "" <=> \E f \in DOMAIN gen.fields :
                                    XformFails(f, TransformationKinds)
         /\ gen.out.err \in {"", "unknown transformation type"}
         /\ XformOutcome(gen.order, TransformationKinds,
                         gen.out.lineItem.Fields,
                         LAMBDA f : applyChain(gen.fields[f], XformChainOf(f),
                                               gen.fields).value)
    /\ gen.pc = "applied" =>
         /\ gen.out.err # "" <=> \E f \in DOMAIN gen.fields :
                                    XformFails(f, applyActionKinds)
         /\ gen.out.err \in {"", "unknown transformation type"}
         /\ XformOutcome(<<"A", "B">>, applyActionKinds,
                         gen.out.transaction.LineItems[1].Fields,
                         LAMBDA f : applyActions(gen.fields[f],
                                                 XformChainOf(f)).value)

\* field A was transformed, then the chain of field B reached the unknown
\* kind after its first action
C15_Witness ==
    /\ gen.pc = "lineItem"
    /\ gen.order = <<"A", "B">>
    /\ gen.fields.A = <<"A", "1", "2", "3">>
    /\ gen.rules[1].Actions = <<ExtractDigits, PadZeros9>>
    /\ gen.rules[2].Actions = <<PrependC, Reverse>>
    /\ gen.out.err = "unknown transformation type"
    /\ gen.out.lineItem.Fields.A
         = <<"0", "0", "0", "0", "0", "0", "1", "2", "3">>
    /\ gen.out.lineItem.Fields.B = <<"7">>

(***************************************************************************)
(* Direct calls of ApplyTransformation with the ensure_length action       *)
(***************************************************************************)
EnsureValues ==
    SeqsUpTo({"1", "2", "x"}, MaxValueLen)
      \cup {<<"1", "2", "3">>,
            <<"1", "2", "3", "4", "5", "6", "7", "8", "9", "0", "1", "2", "3", "4">>}

EnsureTargets == 1..MaxTarget \cup {10}

EnsureInit ==
    /\ \E value \in EnsureValues, n \in EnsureTargets :
         gen = [pc |-> "ensure", value |-> value, n |-> n,
                action |-> Action("ensure_length", Itoa(n)),
                out |-> Ok(EmptyStr), again |-> Ok(EmptyStr)]
    /\ val = IdleVal
    /\ IdleOrch

\* ApplyTransformation(value, action, nil)
EnsureApply ==
    /\ gen.pc = "ensure"
    /\ gen' = [gen EXCEPT
                 !.pc = "ensured",
                 !.out = ApplyTransformation(gen.value, gen.action, <<>>)]
    /\ UNCHANGED <<val, orchVars>>

\* the action applied to its own result
EnsureAgain ==
    /\ gen.pc = "ensured"
    /\ gen' = [gen EXCEPT
                 !.pc = "ensuredTwice",
                 !.again = ApplyTransformation(gen.out.value, gen.action, <<>>)]
    /\ UNCHANGED <<val, orchVars>>

EnsureNext == EnsureApply \/ EnsureAgain

EnsureSpec == EnsureInit /\ [][EnsureNext]_vars

\* C20: ensure_length(n), n > 0, returns a string of length n: the first n
\* characters of a longer value, a shorter value padded on the left with
\* zeros, a value of length n unchanged; applying it again changes nothing
C20_EnsureLengthGivesExactLength ==
    /\ gen.pc \in {"ensured", "ensuredTwice"} =>
         LET v == gen.value
             n == gen.n
             out == gen.out.value
         IN /\ gen.out.err = ""
            /\ Len(out) = n
            /\ Len(v) > n => \A k \in 1..n : out[k] = v[k]
            /\ Len(v) <= n =>
                 /\ \A k \in 1..(n - Len(v)) : out[k] = "0"
                 /\ \A k \in 1..Len(v) : out[n - Len(v) + k] = v[k]
            /\ Len(v) = n => out = v
            /\ (v = <<"1", "2", "3">> /\ n = 10)
                 => out = <<"0", "0", "0", "0", "0", "0", "0", "1", "2", "3">>
            /\ (Len(v) = 14 /\ n = 10)
                 => out = <<"1", "2", "3", "4", "5", "6", "7", "8", "9", "0">>
    /\ gen.pc = "ensuredTwice" => gen.again = gen.out

\* ensure_length(10) has cut "12345678901234" and the second application
\* has returned the same ten characters
C20_Witness ==
    /\ gen.pc = "ensuredTwice"
    /\ Len(gen.value) = 14
    /\ gen.n = 10
    /\ gen.out.value = <<"1", "2", "3", "4", "5", "6", "7", "8", "9", "0">>
    /\ gen.again = gen.out

(***************************************************************************)
(* Direct calls of evaluateCondition                                       *)
(***************************************************************************)
Quoted(lit) == <<"'">> \o lit \o <<"'">>

\* the text "[if ]name[ ]OP[ ]literal" with what it was written from
CondExpr(prefix, name, sp, op, lit, text) ==
    [text |-> prefix \o name \o sp \o op \o (IF text = <<>> THEN <<>> ELSE sp)
                \o text,
     name |-> name, op |-> op, lit |-> lit, grammar |-> TRUE]

CondPrefixes == {EmptyStr, <<"i", "f", " ">>}
CondNames == {<<"A">>, <<"c">>}
CondQuotedLiterals ==
    {EmptyStr, <<"x">>, <<"5">>, <<"b", ">", "1">>, <<"x", " ", "y">>}
CondNumbers == {<<"5">>, <<"1", ".", "5">>, <<"1", "0">>}

\* the expressions of the documented syntax
CondGrammar ==
    {CondExpr(p, n, sp, op, lit, Quoted(lit)) :
        p \in CondPrefixes, n \in CondNames, sp \in {EmptyStr, <<" ">>},
        op \in {OpEq, OpNe}, lit \in CondQuotedLiterals}
    \cup {CondExpr(p, n, sp, op, lit, lit) :
        p \in CondPrefixes, n \in CondNames, sp \in {EmptyStr, <<" ">>},
        op \in {OpGt, OpLt}, lit \in CondNumbers}
    \cup {CondExpr(p, n, <<" ">>, OpStartsWith, lit, Quoted(lit)) :
        p \in CondPrefixes, n \in CondNames, lit \in CondQuotedLiterals}
    \cup {CondExpr(p, n, <<" ">>, op, EmptyStr, EmptyStr) :
        p \in CondPrefixes, n \in CondNames, op \in {OpIsEmpty, OpIsNotEmpty}}

\* expressions outside the syntax: >=, <=, contains, ends_with, a lone name,
\* the empty text, == with a bare number, > with a quoted literal, no name
CondMalformedTexts ==
    {<<"A", " ", ">", "=", " ", "5">>,
     <<"A", " ", "<", "=", " ", "5">>,
     <<"A", " ", "c", "o", "n", "t", "a", "i", "n", "s", " ", "'", "x", "'">>,
     <<"A", " ", "e", "n", "d", "s", "_", "w", "i", "t", "h", " ", "'", "x", "'">>,
     <<"A">>,
     EmptyStr,
     <<"A", " ", "=", "=", " ", "5">>,
     <<"A", " ", ">", " ", "'", "x", "'">>,
     <<"=", "=", " ", "'", "x", "'">>}

CondMalformed ==
    {[text |-> t, name |-> EmptyStr, op |-> EmptyStr, lit |-> EmptyStr,
      grammar |-> FALSE] : t \in CondMalformedTexts}

CondFields ==
    [A : {EmptyStr, <<"x">>, <<"5">>, <<"7">>, <<"x", " ", "y", "z">>,
          <<"b", ">", "1", "z">>},
     b : {EmptyStr, <<"2">>}]

CondInit ==
    /\ gen = IdleGen
    /\ \E e \in CondGrammar \cup CondMalformed, fields \in CondFields :
         val = [pc |-> "cond", rule |-> e, fields |-> fields, result |-> FALSE]
    /\ IdleOrch

\* evaluateCondition(rule, fields)
CondEvaluate ==
    /\ val.pc = "cond"
    /\ val' = [val EXCEPT
                 !.pc = "evaluated",
                 !.result = evaluateCondition(val.rule.text, val.fields)]
    /\ UNCHANGED <<gen, orchVars>>

CondNext == CondEvaluate

CondSpec == CondInit /\ [][CondNext]_vars

\* the text the patterns are matched against
CondText == TrimSpace(TrimPrefix(val.rule.text, <<"i", "f", " ">>))

\* the operators whose pattern matches the text, by their priority
CondMatching ==
    LET order == <<OpEq, OpNe, OpGt, OpLt, OpStartsWith, OpIsEmpty, OpIsNotEmpty>>
    IN [order |-> order,
        matching |-> {k \in 1..Len(order) : findSubmatch(CondText, order[k]).ok}]

C17_GrammarExpressionsEvaluateTheirOperator ==
    (val.pc = "evaluated" /\ val.rule.grammar) =>
        val.result = conditionResult(val.rule.op,
                        [ok |-> TRUE, name |-> val.rule.name, arg |-> val.rule.lit],
                        val.fields)


(***************************************************************************)
(* Emission of the schema fields: Generate over templates with several     *)
(* fields per level                                                        *)
(***************************************************************************)
MaxEmitRows == 2

RequiredTypes == {"required", "optional", "conditional"}

\* the rows of a template sheet, in two row orders; the column Account is
\* in no CSV file
EmitTemplates ==
    UNION {{<<TemplateRow("CheckNumber", "checkNo", "transaction", "numeric", 0, "required"),
              TemplateRow("PayType", "payType", "transaction", "text", 0, t),
              TemplateRow("Amount", "amount", "lineitem", "numeric", 0, a),
              TemplateRow("Memo", "memo", "lineitem", "text", 0, "optional"),
              TemplateRow("Account", "account", "lineitem", "text", 0, m)>>,
            <<TemplateRow("Account", "account", "lineitem", "text", 0, m),
              TemplateRow("Memo", "memo", "lineitem", "text", 0, "optional"),
              TemplateRow("PayType", "payType", "transaction", "text", 0, t),
              TemplateRow("Amount", "amount", "lineitem", "numeric", 0, a),
              TemplateRow("CheckNumber", "checkNo", "transaction", "numeric", 0, "required")>>} :
           t \in RequiredTypes, a \in RequiredTypes, m \in {"required", "optional"}}

EmitRecords ==
    [CheckNumber : {<<"7">>}, PayType : {EmptyStr, <<"x">>},
     Amount : {EmptyStr, <<"1">>}, Memo : {EmptyStr, <<"2">>}]

EmitDeptConfig ==
    [StaticFields |-> <<[XMLTag |-> "Book", Value |-> <<"b">>, ParentTag |-> "cashbook"],
                        [XMLTag |-> "Ledger", Value |-> <<"g">>, ParentTag |-> "lineitem"],
                        [XMLTag |-> "Source", Value |-> <<"x">>, ParentTag |-> "transaction"]>>]

EmitInit ==
    /\ gen \in [pc : {"input"},
                template : EmitTemplates,
                rows : SeqsUpTo(EmitRecords, MaxEmitRows),
                groupByField : {"", "CheckNumber"},
                transactions : {<<>>},
                doc : {NoDoc}]
    /\ val = IdleVal
    /\ IdleOrch

EmitGroup ==
    /\ gen.pc = "input"
    /\ gen' = [gen EXCEPT !.pc = "grouped",
                          !.transactions = groupTransactions(gen.rows,
                                                             gen.groupByField)]
    /\ UNCHANGED <<val, orchVars>>

EmitGenerate ==
    /\ gen.pc = "grouped"
    /\ gen' = [gen EXCEPT !.pc = "generated",
                          !.doc = Generate(gen.transactions,
                                           ParseWithConfig(gen.template),
                                           EmitDeptConfig)]
    /\ UNCHANGED <<val, orchVars>>

EmitNext == EmitGroup \/ EmitGenerate

EmitSpec == EmitInit /\ [][EmitNext]_vars

\* the rows of the template of one parent level
EmitRowsOf(level) ==
    {i \in 1..Len(gen.template) : gen.template[i].ParentTag = level}

\* the rows of a level whose field is emitted for the given CSV fields
EmitEmitted(level, fields) ==
    {i \in EmitRowsOf(level) :
        \/ Get(fields, gen.template[i].OldHeader) # EmptyStr
        \/ gen.template[i].RequiredType = "required"}

EmitStaticTags(level) ==
    SelectSeq(EmitDeptConfig.StaticFields, LAMBDA f : f.ParentTag = level)

EmitRowOfTag(tag) ==
    CHOOSE i \in 1..Len(gen.template) : gen.template[i].XMLTag = tag

\* the children of an element are the static fields of the level, then one
\* element per emitted row in ascending row order, then nItems elements
EmitChildrenAsSpecified(children, level, fields, nItems) ==
    LET statics == EmitStaticTags(level)
        s == Len(statics)
        emitted == EmitEmitted(level, fields)
        m == Cardinality(emitted)
    IN /\ Len(children) = s + m + nItems
       /\ \A k \in 1..s :
             /\ children[k].XMLName = statics[k].XMLTag
             /\ children[k].Value = statics[k].Value
       /\ {children[k].XMLName : k \in (s + 1)..(s + m)}
             = {gen.template[i].XMLTag : i \in emitted}
       /\ \A k \in (s + 1)..(s + m) :
             /\ children[k].Value
                  = Get(fields, gen.template[EmitRowOfTag(children[k].XMLName)].OldHeader)
             /\ children[k].Children = <<>>
             /\ \A l \in (k + 1)..(s + m) :
                   EmitRowOfTag(children[k].XMLName)
                     < EmitRowOfTag(children[l].XMLName)
       /\ \A k \in (s + m + 1)..Len(children) :
             children[k].XMLName = "lineItem"

\* C18: the schema fields emitted under every transaction element and under
\* every line-item element are exactly the fields of that level that are
\* non-empty or required (a transaction takes the values of its first line
\* item), in ascending Order, after the static fields of the level
C18_SchemaFieldsEmittedInOrder ==
    gen.pc = "generated" =>
        LET txs == transactionElements(gen.doc)
        IN /\ Len(txs) = Len(gen.transactions)
           /\ \A i \in 1..Len(txs) :
                 LET items == gen.transactions[i].LineItems
                     els == lineItemElements(txs[i])
                 IN /\ Len(els) = Len(items)
                    /\ EmitChildrenAsSpecified(txs[i].Children, "transaction",
                                               items[1].Fields, Len(items))
                    /\ \A j \in 1..Len(els) :
                          EmitChildrenAsSpecified(els[j].Children, "lineitem",
                                                  items[j].Fields, 0)

\* a document of a template whose rows are not listed level by level, with a
\* line item whose required Amount is empty (emitted) and whose optional Memo
\* is empty (omitted) while the required Account follows, and a transaction
\* whose conditional PayType is empty (omitted)
C18_Witness ==
    /\ gen.pc = "generated"
    /\ gen.template[1].OldHeader = "Account"
    /\ gen.template[1].RequiredType = "required"
    /\ gen.template[3].RequiredType = "conditional"
    /\ gen.template[4].RequiredType = "required"
    /\ \E i \in 1..Len(gen.transactions) :
          LET tx == transactionElements(gen.doc)[i]
              first == gen.transactions[i].LineItems[1].Fields
              els == lineItemElements(tx)
          IN /\ first.PayType = EmptyStr
             /\ first.Amount = EmptyStr
             /\ first.Memo = EmptyStr
             /\ Len(els) = 2
             /\ Len(tx.Children) = 4
             /\ [k \in 1..3 |-> els[1].Children[k].XMLName]
                   = <<"Ledger", "account", "amount">>
             /\ els[1].Children[3].Value = EmptyStr
             /\ Len(els[1].Children) = 3


(***************************************************************************)
(* Serialisation of one text value and one attribute value (EscSpec)       *)
(***************************************************************************)
MaxEscLen == 2

EscChars == {"&", "<", ">", "\"", "'", "a", ";"} \cup InvalidBytes

\* every short string, and texts that already hold entity-like text
EscValues ==
    SeqsUpTo(EscChars, MaxEscLen)
      \cup {<<"&", "a", "m", "p", ";">>, <<"a", "&", "l", "t", ";", "<">>}

EscAttrs == {EmptyStr, <<"\"">>, <<"&", "'">>, <<"<", "a">>}

EscIndent == <<" ", " ">>

EscInit ==
    /\ gen \in [pc : {"input"}, value : EscValues, attr : EscAttrs,
                out : {EmptyStr}]
    /\ val = IdleVal
    /\ IdleOrch

\* writeElement of an element with one attribute and a text value
EscWrite ==
    /\ gen.pc = "input"
    /\ gen' = [gen EXCEPT
                 !.pc = "written",
                 !.out = writeElement(
                            [XMLName |-> "e",
                             Attributes |-> <<[Name |-> "n", Value |-> gen.attr]>>,
                             Value |-> gen.value, Children |-> <<>>],
                            EscIndent, 1)]
    /\ UNCHANGED <<val, orchVars>>

\* marshalWithIndent of a document with a root attribute and one child
EscMarshal ==
    /\ gen.pc = "input"
    /\ gen' = [gen EXCEPT
                 !.pc = "marshalled",
                 !.out = marshalWithIndent(
                            [XMLName |-> "cashbook",
                             Attributes |-> <<[Name |-> "v", Value |-> gen.attr]>>,
                             Children |-> <<createSimpleElement("e", gen.value)>>],
                            EscIndent)]
    /\ UNCHANGED <<val, orchVars>>

EscNext == EscWrite \/ EscMarshal

EscSpec == EscInit /\ [][EscNext]_vars

\* the five reserved characters and their entities
EscEntities ==
    {[char |-> "&", text |-> <<"&", "a", "m", "p", ";">>],
     [char |-> "<", text |-> <<"&", "l", "t", ";">>],
     [char |-> ">", text |-> <<"&", "g", "t", ";">>],
     [char |-> "\"", text |-> <<"&", "q", "u", "o", "t", ";">>],
     [char |-> "'", text |-> <<"&", "a", "p", "o", "s", ";">>]}

EscStartsWith(s, t) == Len(s) >= Len(t) /\ SubSeq(s, 1, Len(t)) = t

\* every reserved character replaced by its entity, every other unchanged
RECURSIVE EscExpected(_)
EscExpected(s) ==
    IF s = <<>> THEN <<>>
    ELSE LET es == {e \in EscEntities : e.char = Head(s)}
         IN (IF es = {} THEN <<Head(s)>> ELSE (CHOOSE e \in es : TRUE).text)
            \o EscExpected(Tail(s))

\* what a reader of the XML makes of escaped text: one pass, every entity
\* back to its character
RECURSIVE unescapeXML(_)
unescapeXML(s) ==
    IF s = <<>> THEN <<>>
    ELSE LET es == {e \in EscEntities : EscStartsWith(s, e.text)}
         IN IF es = {} THEN <<Head(s)>> \o unescapeXML(Tail(s))
            ELSE LET e == CHOOSE x \in es : TRUE
                 IN <<e.char>> \o unescapeXML(SubSeq(s, Len(e.text) + 1, Len(s)))

EscLeast(S) == CHOOSE i \in S : \A j \in S : i <= j

RECURSIVE EscNth(_, _)
EscNth(S, n) ==
    IF n = 1 THEN EscLeast(S) ELSE EscNth(S \ {EscLeast(S)}, n - 1)

EscPositions(out, c) == {i \in 1..Len(out) : out[i] = c}

\* the text content of the element whose start tag ends at the k-th ">"
EscTextOf(out, k) ==
    LET g == EscNth(EscPositions(out, ">"), k)
    IN IF out[g - 1] = "/" THEN EmptyStr
       ELSE SubSeq(out, g + 1,
                   EscLeast({i \in (g + 1)..Len(out) : out[i] = "<"}) - 1)

\* the value of the first attribute
EscAttrOf(out) ==
    LET q == EscPositions(out, "\"")
    IN SubSeq(out, EscNth(q, 1) + 1, EscNth(q, 2) - 1)

EscEmittedText == EscTextOf(gen.out, IF gen.pc = "written" THEN 1 ELSE 2)

\* C19: the emitted text value and attribute value are the original with
\* each of & < > " ' replaced by its entity and every other character
\* unchanged, and un-escaping them gives back the original value, for every
\* input string
C19_EscapeRoundTripsEveryString ==
    gen.pc \in {"written", "marshalled"} =>
        /\ EscEmittedText = EscExpected(gen.value)
        /\ EscAttrOf(gen.out) = EscExpected(gen.attr)
        /\ unescapeXML(EscEmittedText) = gen.value
        /\ unescapeXML(EscAttrOf(gen.out)) = gen.attr


(***************************************************************************)
(* Properties of the end of Converter.Run (RunSpec)                        *)
(***************************************************************************)
\* the step of unit u that leaves archiveFiles
LeavesArchive(u) == worker[u].pc = "archive" /\ worker'[u].pc # "archive"

\* C21: archiving is attempted only by a unit whose output file has been
\* written, and whether it succeeds or fails the unit returns Success = true
\* with the path of its output file and no error
C21_ArchivalIsBestEffort ==
    [][/\ (\A u \in Units :
              LeavesArchive(u) =>
                 /\ worker'[u].result.Success
                 /\ worker'[u].result.Error = NoError
                 /\ worker'[u].result.OutputFile = worker[u].result.OutputFile
                 /\ worker[u].result.OutputFile \in DOMAIN outputDir)
        /\ ((inputArchive' # inputArchive \/ outputArchive' # outputArchive
               \/ inputDir' # inputDir)
              => (\E v \in Units :
                    /\ LeavesArchive(v)
                    /\ worker[v].result.OutputFile \in DOMAIN outputDir))]_vars

\* a unit that wrote its output, failed to archive its input and returned
\* Success = true with the path of the output file
C21_Witness ==
    \E u \in Units :
        /\ worker[u].pc = "send"
        /\ worker[u].result.Success
        /\ worker[u].result.OutputFile \in DOMAIN outputDir
        /\ ~worker[u].archived
        /\ worker[u].filePath \in inputDir
        /\ inputArchive = {}


(***************************************************************************)
(* The process command with its --dry-run flag (DrySpec)                   *)
(***************************************************************************)
\* var dryRun bool, bound to the flag --dry-run; it is kept with the
\* configuration of the run
WithDryRun(cfg, dryRun) ==
    [f \in DOMAIN cfg \cup {"DryRun"} |->
        IF f = "DryRun" THEN dryRun ELSE cfg[f]]

DryConfigs ==
    {WithDryRun(Config(0, c, "CheckNumber", <<>>, <<TemplateRule>>, GenTemplate), d) :
        c \in BOOLEAN, d \in BOOLEAN}

DryInit ==
    /\ gen = IdleGen
    /\ val = IdleVal
    /\ OrchInit(1, OrchFiles(1), DryConfigs)

DrySpec == DryInit /\ [][Next]_vars

\* C22: when the process command runs with --dry-run, no output file is
\* written for any unit
C22_DryRunWritesNoOutput ==
    config.DryRun => outputDir = <<>>


(***************************************************************************)
(* Output files of the units of one run (Spec)                             *)
(***************************************************************************)
\* C23: the units of one run that succeed are written to distinct output
\* paths, and the output file named in each successful Result (and its copy
\* in the output archive) holds the document of that unit
C23_OutputFilesNotOverwritten ==
    \A u \in Units :
        worker[u].result.Success =>
            LET f == worker[u].result.OutputFile
            IN /\ f \in DOMAIN outputDir
               /\ outputDir[f].unit = worker[u].filePath
               /\ f \in DOMAIN outputArchive
                    => outputArchive[f].unit = worker[u].filePath
               /\ \A v \in Units \ {u} :
                     worker[v].result.Success => worker[v].result.OutputFile # f


(***************************************************************************)
(* The transformation step of Run against the transformation engine        *)
(* (XformSpec)                                                             *)
(***************************************************************************)
\* C24: on every ruleset and line item, applyTransformations (with
\* applyAction) succeeds or fails as Transformer.TransformLineItem (with
\* ApplyTransformation) does and leaves the same field values
C24_RunTransformsLikeEngine ==
    gen.pc = "applied" =>
        \A order \in Perms(DOMAIN gen.fields) :
            LET engine == TransformLineItem(gen.rules,
                              [ID |-> 1, Fields |-> gen.fields], order)
            IN /\ gen.out.err = "" <=> engine.err = ""
               /\ gen.out.transaction.LineItems[1].Fields = engine.lineItem.Fields


(***************************************************************************)
(* Validation and assembly of the same transactions (ReqSpec)              *)
(***************************************************************************)
\* templates with a required column, Account, that the CSV file does not have
ReqTemplates ==
    {<<TemplateRow("CheckNumber", "CheckNumber", "transaction", "numeric", 0, "required"),
       TemplateRow("Amount", "Amount", "lineitem", "numeric", 0, r),
       TemplateRow("Account", "Account", "lineitem", "text", 0, "required")>> :
        r \in {"required", "optional"}}

ReqInit ==
    /\ gen = IdleGen
    /\ \E rows \in SeqsUpTo(ValRecords, MaxValRows), g \in {"", "CheckNumber"},
          t \in ReqTemplates :
         val = [pc |-> "input",
                transactions |-> groupTransactions(rows, g),
                schema |-> ParseWithConfig(t),
                result |-> <<>>,
                doc |-> NoDoc]
    /\ IdleOrch

\* validation.Validate(transactions, schema), step 6 of Run
ReqValidate ==
    /\ val.pc = "input"
    /\ \E visits \in Visits(val.transactions) :
         val' = [val EXCEPT
                   !.pc = "validated",
                   !.result = Validate(val.transactions, val.schema, visits)]
    /\ UNCHANGED <<gen, orchVars>>

\* xmlwriter.Generate(transactions, schema, deptConfig), step 7 of Run
ReqGenerate ==
    /\ val.pc = "validated"
    /\ val' = [val EXCEPT
                 !.pc = "generated",
                 !.doc = Generate(val.transactions, val.schema, GenDeptConfig)]
    /\ UNCHANGED <<gen, orchVars>>

ReqNext == ReqValidate \/ ReqGenerate

ReqSpec == ReqInit /\ [][ReqNext]_vars

ReqRequiredFields ==
    {h \in DOMAIN val.schema.FieldMappings :
        val.schema.FieldMappings[h].RequiredType = "required"}

ReqHasFinding(transaction, lineItem, h) ==
    \E k \in 1..Len(val.result) :
        /\ val.result[k].Rule = "required"
        /\ val.result[k].Field = h
        /\ val.result[k].TransactionID = transaction.ID
        /\ val.result[k].LineItemID = lineItem.ID

\* C25: for every line item and every required schema field for which the
\* line item has no non-empty value (empty, or the key is absent), validation
\* reports a required finding for that field and line item
C25_RequiredEmptyAlwaysReported ==
    val.pc \in {"validated", "generated"} =>
        \A i \in 1..Len(val.transactions) :
          \A j \in 1..Len(val.transactions[i].LineItems) :
            \A h \in ReqRequiredFields :
                Get(val.transactions[i].LineItems[j].Fields, h) = EmptyStr
                  => ReqHasFinding(val.transactions[i],
                                   val.transactions[i].LineItems[j], h)


(***************************************************************************)
(* TransformLineItem with a rule that reads another field (DetSpec)        *)
(***************************************************************************)
IfEmptyUseB == Action("if_empty_use_field", <<"B">>)

DetInit ==
    /\ \E a \in {EmptyStr, <<" ">>, <<"7">>}, b \in {EmptyStr, <<"8">>, <<"x", "8">>},
          chainA \in SeqsUpTo({IfEmptyUseB, PrependA, ExtractDigits}, MaxActions),
          chainB \in {<<>>, <<PrependC>>, <<ExtractDigits>>} :
         gen = [pc |-> "xform",
                fields |-> [A |-> a, B |-> b],
                rules |-> <<[Field |-> "A", Actions |-> chainA],
                            [Field |-> "B", Actions |-> chainB]>>,
                order |-> <<>>,
                out |-> <<>>]
    /\ val = IdleVal
    /\ IdleOrch

DetNext == XformLineItem

DetSpec == DetInit /\ [][DetNext]_vars

\* C26: the field values TransformLineItem leaves do not depend on the order
\* in which the fields of the line item are visited
C26_TransformLineItemDeterministic ==
    gen.pc = "lineItem" =>
        \A order \in Perms(DOMAIN gen.fields) :
            TransformLineItem(gen.rules, [ID |-> 1, Fields |-> gen.fields],
                              order).lineItem.Fields
              = gen.out.lineItem.Fields


ReqTxElements == transactionElements(val.doc)

\* the finding is one of those ValidateField gives for field f.Field of the
\* j-th line item of the i-th transaction
ReqFindingAbout(f, i, j) ==
    LET t == val.transactions[i]
        li == t.LineItems[j]
    IN /\ f.Field \in DOMAIN li.Fields
       /\ GetFieldMapping(val.schema, f.Field) # NoMapping
       /\ \E k \in 1..Len(ValidateField(li.Fields[f.Field],
                               GetFieldMapping(val.schema, f.Field), t, li)) :
             ValidateField(li.Fields[f.Field],
                           GetFieldMapping(val.schema, f.Field), t, li)[k] = f

\* C27: with global numbering, the TransactionID and the LineItemID of every
\* finding are the index attributes emitted for the transaction and the
\* line item the finding is about, with and without grouping
C27_FindingIDsAreEmittedIndices ==
    val.pc = "generated" =>
        \A k \in 1..Len(val.result) :
            /\ \E i \in 1..Len(val.transactions) :
                 \E j \in 1..Len(val.transactions[i].LineItems) :
                    ReqFindingAbout(val.result[k], i, j)
            /\ \A i \in 1..Len(val.transactions) :
                 \A j \in 1..Len(val.transactions[i].LineItems) :
                    ReqFindingAbout(val.result[k], i, j) =>
                        /\ indexOf(ReqTxElements[i]) = val.result[k].TransactionID
                        /\ indexOf(lineItemElements(ReqTxElements[i])[j])
                             = val.result[k].LineItemID

\* grouped by CheckNumber, a finding about the line item of the second
\* transaction
C27_Witness ==
    /\ val.pc = "generated"
    /\ Len(val.transactions) = 2
    /\ val.transactions[2].GroupKey # EmptyStr
    /\ \E k \in 1..Len(val.result) :
          /\ val.result[k].TransactionID = 2
          /\ val.result[k].LineItemID = 2
          /\ indexOf(lineItemElements(ReqTxElements[2])[1]) = 2


\* the units whose Run has returned
Returned == {u \in Units : worker[u].pc \in {"send", "sent", "done"}}

\* C28: in every Result that Run returns, Success holds exactly when Error is
\* nil and exactly when OutputFile is not empty
C28_SuccessIffNoErrorIffOutputFile ==
    \A u \in Returned :
        LET r == worker[u].result
        IN /\ r.Success <=> r.Error = NoError
           /\ r.Success <=> r.OutputFile # NoFile

\* a unit returned from the failure of writeOutput, after every other step
C28_Witness ==
    \E u \in Returned :
        /\ worker[u].result.Error.wrap = "failed to write output"
        /\ ~worker[u].result.Success
        /\ worker[u].result.OutputFile = NoFile
        /\ worker[u].result.Stats.RowsProcessed > 0


(***************************************************************************)
(* Termination of runProcess (LiveSpec): every goroutine that can run is   *)
(* eventually run by the Go scheduler                                      *)
(***************************************************************************)
\* the steps of the goroutine of one file
WorkerStep(u) ==
    \/ FindDepartment(u) \/ DetermineTemplate(u) \/ ParseTemplate(u)
    \/ ParseCSV(u) \/ ApplyTransformations(u) \/ ValidateData(u)
    \/ BuildDocument(u) \/ BuildTransaction(u) \/ WriteOutput(u)
    \/ ArchiveFiles(u) \/ Send(u) \/ WgDone(u)

\* the steps of the goroutine of runProcess itself
MainStep == (\E u \in Units : Spawn(u)) \/ Collect \/ PrintSummary

LiveInit ==
    /\ gen = IdleGen
    /\ val = IdleVal
    /\ \E n \in 1..NumUnits :
         OrchInit(n, {[i \in 1..n |-> <<Rec(<<"7">>, <<"1">>)>>]},
                  {Config(0, TRUE, "CheckNumber", <<>>, <<TemplateRule>>,
                          GenTemplate)})

LiveSpec ==
    /\ LiveInit
    /\ [][Next]_vars
    /\ \A u \in 1..NumUnits : WF_vars(WorkerStep(u))
    /\ WF_vars(MainStep)
    /\ WF_vars(CloseResults)

\* a worker that is about to send finds room in the open channel
SendNeverBlocks ==
    \A u \in Units :
        worker[u].pc = "send" => Len(results) < Len(inputFiles) /\ ~closed

\* the channel is closed once, when every worker is done
ClosedOnceAfterAllDone ==
    closed' # closed =>
        /\ ~closed
        /\ closed'
        /\ \A u \in Units : worker[u].pc = "done"

\* C29: no worker blocks when it sends its result, the channel is closed
\* once and only after all workers are done, and runProcess then ends: every
\* result is collected and the summary is printed
C29_RunProcessTerminates ==
    /\ []SendNeverBlocks
    /\ [][ClosedOnceAfterAllDone]_vars
    /\ <>(summary /\ closed /\ results = <<>>
            /\ Len(collected) = Len(inputFiles))

\* two workers have sent, the channel is closed and drained, the summary is
\* printed
C29_Witness ==
    /\ Len(inputFiles) = 2
    /\ \A u \in Units : worker[u].pc = "done"
    /\ closed
    /\ results = <<>>
    /\ Len(collected) = 2
    /\ summary


(***************************************************************************)
(* Statistics of a successful unit (RunSpec)                               *)
(***************************************************************************)
\* C30: the statistics of a successful Result agree with its document:
\* RowsProcessed is the number of input records, TransactionsCreated the
\* number of transaction elements, LineItemsCreated the number of line-item
\* elements, which is RowsProcessed
C30_StatsAgreeWithDocument ==
    \A u \in Returned :
        worker[u].result.Success =>
            LET stats == worker[u].result.Stats
                txs == transactionElements(DocumentOf(u))
            IN /\ stats.RowsProcessed = Len(files[worker[u].filePath])
               /\ stats.TransactionsCreated = Len(txs)
               /\ stats.LineItemsCreated = Len(allLineItemElements(txs))
               /\ stats.LineItemsCreated = stats.RowsProcessed

====
